---- MODULE Spec2Model ----
(***************************************************************************)
(* Model of the video-tutoring feature (F5) of the AI_edu_bot server: the  *)
(* ingest cache (F5_meta_db), ingestion (F5_ingest), the priority          *)
(* retriever (F5_vector) and the two graph nodes ingest_node and rag_node  *)
(* (F5_chatnode) behind the /video_rag endpoint (main.py).                 *)
(*                                                                         *)
(* Text is modelled as a sequence of one-character strings, so that        *)
(* strip(), len() and the regular expressions of extract_timestamp are     *)
(* computed on characters.  Times are counted in half seconds.             *)
(***************************************************************************)
EXTENDS Integers, Sequences, FiniteSets, TLC

VARIABLES
    indexed_videos,  \* F5_meta_db table: rows [user_id, chat_id, youtube_url, faiss_dir]
    f5_store,        \* ./f5_store: faiss_dir -> documents of the index saved there
    chat_messages,   \* F5_history_db table: (user, chat) -> sequence of [role, content]
    uuid_next,       \* number of directory names uuid4() has handed out
    resp,            \* outcome of the latest /video_rag or delete request
    runs,            \* per key, the last two ingest_node runs since the chat was deleted
    probe,           \* a call of one pure function: its arguments and its result
    threads,         \* per worker thread, the request it serves and how far it came
    cursors          \* per module-level sqlite cursor, the rows not yet fetched

vars == <<indexed_videos, f5_store, chat_messages, uuid_next, resp, runs, probe, threads, cursors>>

sysvars == <<indexed_videos, f5_store, chat_messages, uuid_next, resp, runs, threads, cursors>>

----------------------------------------------------------------------------
(* Bounds of the model *)

\* longest run of same-source documents in a similarity ranking
MaxRun == 10
\* largest k given to retrieve_with_priority
MaxK == 10
\* most tokens concatenated into a message
MaxTokens == 4
\* most entries of a transcript
MaxLines == 2
\* most sampled frames of a probed stream
MaxSampled == 3
\* most directory names handed out by uuid4 in one run of the server
MaxBuilds == 3
\* most rows of one chat in chat_messages
MaxMessages == 4
\* most documents of a probed index
MaxDocs == 3
\* most requests served by the worker threads together
MaxRequests == 2

\* most answered turns of a chat before the turn examined
MaxTurns == 5

\* the most documents of an index with one time marker per document
MaxRanked == 12

----------------------------------------------------------------------------
(* Helpers on sequences *)

Min(a, b) == IF a <= b THEN a ELSE b

\* Python's s[:n] for n >= 0
Take(s, n) == SubSeq(s, 1, Min(n, Len(s)))

Range(s) == {s[i] : i \in 1..Len(s)}

\* n copies of x
Rep(x, n) == [i \in 1..n |-> x]

NoProbe == [fn |-> "none"]

----------------------------------------------------------------------------
(* F5_vector.retrieve_with_priority *)

IsSpeech(d) == d.source = "speech"

IsVisual(d) == d.source = "visual"

\* db.similarity_search(query, k=n): the n best-ranked documents of the index,
\* best first.  ranked is the index in the order of similarity to the query.
similarity_search(ranked, n) == Take(ranked, n)

\* the k below 330 for which the double k * 0.7 is less than the integer
\* 7k/10 (90 * 0.7 is 62.99999999999999)
RoundedBelow == {90, 170, 180}

\* int(k * 0.7): Python multiplies in binary floating point and truncates.
\* For k below 330 the result is floor(7k/10), except for the k of
\* RoundedBelow, where the product falls short of the integer 7k/10 and
\* int() gives one less.
transcript_quota(k) == IF k \in RoundedBelow THEN ((7 * k) \div 10) - 1 ELSE (7 * k) \div 10

\* the same ratio with the two sources exchanged
retrieve_swapped_ratio(ranked, k) ==
    LET all_docs == similarity_search(ranked, k * 2)
        transcript_docs == SelectSeq(all_docs, IsSpeech)
        ocr_docs == SelectSeq(all_docs, IsVisual)
        ocr_count == transcript_quota(k)
        transcript_count == k - ocr_count
    IN  Take(transcript_docs, transcript_count) \o Take(ocr_docs, ocr_count)

\* the backfill branches left out
retrieve_no_backfill(ranked, k) ==
    LET all_docs == similarity_search(ranked, k * 2)
        transcript_docs == SelectSeq(all_docs, IsSpeech)
        ocr_docs == SelectSeq(all_docs, IsVisual)
        transcript_count == transcript_quota(k)
        ocr_count == k - transcript_count
    IN  Take(transcript_docs, transcript_count) \o Take(ocr_docs, ocr_count)

\* the backfill taken from the whole bucket instead of a slice of it
retrieve_unsliced_backfill(ranked, k) ==
    LET all_docs == similarity_search(ranked, k * 2)
        transcript_docs == SelectSeq(all_docs, IsSpeech)
        ocr_docs == SelectSeq(all_docs, IsVisual)
        transcript_count == transcript_quota(k)
        ocr_count == k - transcript_count
        selected_transcript == Take(transcript_docs, transcript_count)
        selected_ocr == Take(ocr_docs, ocr_count)
    IN  IF Len(selected_transcript) < transcript_count /\ Len(ocr_docs) > ocr_count
        THEN selected_transcript \o ocr_docs
        ELSE IF Len(selected_ocr) < ocr_count /\ Len(transcript_docs) > transcript_count
        THEN transcript_docs \o selected_ocr
        ELSE selected_transcript \o selected_ocr

\* the result concatenated screen-first
retrieve_visual_first(ranked, k) ==
    LET all_docs == similarity_search(ranked, k * 2)
        transcript_docs == SelectSeq(all_docs, IsSpeech)
        ocr_docs == SelectSeq(all_docs, IsVisual)
        transcript_count == transcript_quota(k)
        ocr_count == k - transcript_count
        selected_transcript == Take(transcript_docs, transcript_count)
        selected_ocr == Take(ocr_docs, ocr_count)
    IN  IF Len(selected_transcript) < transcript_count /\ Len(ocr_docs) > ocr_count
        THEN Take(ocr_docs, ocr_count + (transcript_count - Len(selected_transcript)))
                \o selected_transcript
        ELSE IF Len(selected_ocr) < ocr_count /\ Len(transcript_docs) > transcript_count
        THEN selected_ocr
                \o Take(transcript_docs, transcript_count + (ocr_count - Len(selected_ocr)))
        ELSE selected_ocr \o selected_transcript

retrieve_with_priority(ranked, k) ==
    LET all_docs == similarity_search(ranked, k * 2)
        transcript_docs == SelectSeq(all_docs, IsSpeech)
        ocr_docs == SelectSeq(all_docs, IsVisual)
        transcript_count == transcript_quota(k)
        ocr_count == k - transcript_count
        selected_transcript == Take(transcript_docs, transcript_count)
        selected_ocr == Take(ocr_docs, ocr_count)
    IN  IF Len(selected_transcript) < transcript_count /\ Len(ocr_docs) > ocr_count
        THEN selected_transcript
                \o Take(ocr_docs, ocr_count + (transcript_count - Len(selected_transcript)))
        ELSE IF Len(selected_ocr) < ocr_count /\ Len(transcript_docs) > transcript_count
        THEN Take(transcript_docs, transcript_count + (ocr_count - Len(selected_ocr)))
                \o selected_ocr
        ELSE selected_transcript \o selected_ocr

----------------------------------------------------------------------------
(* The retriever applied to bounded rankings.  A ranking is the index in   *)
(* similarity order: a speech, b visual, c speech, d visual documents,     *)
(* each run of length 0..MaxRun; a document is named by its rank.          *)

SourceRuns(a, b, c, d) ==
    Rep("speech", a) \o Rep("visual", b) \o Rep("speech", c) \o Rep("visual", d)

Ranking(a, b, c, d) ==
    LET src == SourceRuns(a, b, c, d)
    IN  [i \in 1..Len(src) |-> [rank |-> i, source |-> src[i]]]

InitSystemIdle ==
    /\ indexed_videos = {}
    /\ threads = <<>>
    /\ cursors = <<>>
    /\ f5_store = <<>>
    /\ chat_messages = <<>>
    /\ uuid_next = 0
    /\ resp = [op |-> "none"]
    /\ runs = <<>>

InitRetrieve ==
    /\ InitSystemIdle
    /\ \E a \in 0..MaxRun, b \in 0..MaxRun, c \in 0..MaxRun, d \in 0..MaxRun, k \in 1..MaxK :
         probe = [fn |-> "retrieve", index |-> Ranking(a, b, c, d), k |-> k,
                  called |-> FALSE, docs |-> <<>>]

CallRetrieve ==
    /\ probe.fn = "retrieve"
    /\ ~probe.called
    /\ probe' = [probe EXCEPT !.called = TRUE,
                              !.docs = retrieve_with_priority(probe.index, probe.k)]
    /\ UNCHANGED sysvars

NextRetrieve == CallRetrieve

SpecRetrieve == InitRetrieve /\ [][NextRetrieve]_vars

----------------------------------------------------------------------------
(* The retriever applied for small k, for the k = 15 of rag_node and for   *)
(* k = 90, to rankings whose numbers of speech and screen documents lie    *)
(* around the two quotas.                                                  *)

QuotaKs == (1..MaxK) \cup {15, 90}

\* bucket sizes around the quotas of k
QuotaSizes(k) ==
    {n \in {0, 1, ((7 * k) \div 10) - 1, (7 * k) \div 10, ((7 * k) \div 10) + 1,
            k - ((7 * k) \div 10), k - ((7 * k) \div 10) + 1, k} : n >= 0}

InitQuota ==
    /\ InitSystemIdle
    /\ \E k \in QuotaKs :
       \E a \in QuotaSizes(k), b \in QuotaSizes(k) :
         probe = [fn |-> "quota", index |-> Ranking(a, b, 0, 0), k |-> k,
                  called |-> FALSE, docs |-> <<>>]

CallQuota ==
    /\ probe.fn = "quota"
    /\ ~probe.called
    /\ probe' = [probe EXCEPT !.called = TRUE,
                              !.docs = retrieve_with_priority(probe.index, probe.k)]
    /\ UNCHANGED sysvars

NextQuota == CallQuota

SpecQuota == InitQuota /\ [][NextQuota]_vars

----------------------------------------------------------------------------
(* F5_chatnode.extract_timestamp.  A message is a sequence of characters;  *)
(* Python's None is the empty tuple and a value v the tuple <<v>>.         *)

None == <<>>

Some(v) == <<v>>

Digits == <<"0", "1", "2", "3", "4", "5", "6", "7", "8", "9">>

\* \d
IsDigit(c) == \E i \in 1..Len(Digits) : Digits[i] = c

\* \s
IsSpace(c) == c \in {" ", "\t", "\n", "\r", "\f"}

DigitVal(c) == (CHOOSE i \in 1..Len(Digits) : Digits[i] = c) - 1

\* int() of a string of decimal digits
RECURSIVE int(_)
int(ds) ==
    IF ds = <<>> THEN 0
    ELSE 10 * int(SubSeq(ds, 1, Len(ds) - 1)) + DigitVal(ds[Len(ds)])

\* the four regular expressions of the patterns list: a literal, then
\* whitespace (\s+ "plus", \s* "star", or none), then (\d{1,2}):(\d{2})
patterns ==
    << [lit |-> <<"a", "t">>, ws |-> "plus"],
       [lit |-> <<"o", "n">>, ws |-> "plus"],
       [lit |-> <<"@">>,      ws |-> "star"],
       [lit |-> <<>>,         ws |-> "none"] >>

\* the list with "on" tried before "at"
patterns_on_first ==
    << [lit |-> <<"o", "n">>, ws |-> "plus"],
       [lit |-> <<"a", "t">>, ws |-> "plus"],
       [lit |-> <<"@">>,      ws |-> "star"],
       [lit |-> <<>>,         ws |-> "none"] >>

CharAt(s, i) == IF i >= 1 /\ i <= Len(s) THEN s[i] ELSE ""

DigitAt(s, i) == i >= 1 /\ i <= Len(s) /\ IsDigit(s[i])

\* (\d{1,2}):(\d{2}) matched at position i: the greedy \d{1,2} takes two
\* digits when the rest then matches, else one.  The groups, or None.
MatchTime(s, i) ==
    IF DigitAt(s, i) /\ DigitAt(s, i + 1) /\ CharAt(s, i + 2) = ":"
         /\ DigitAt(s, i + 3) /\ DigitAt(s, i + 4)
    THEN Some([g1 |-> SubSeq(s, i, i + 1), g2 |-> SubSeq(s, i + 3, i + 4)])
    ELSE IF DigitAt(s, i) /\ CharAt(s, i + 1) = ":"
              /\ DigitAt(s, i + 2) /\ DigitAt(s, i + 3)
    THEN Some([g1 |-> SubSeq(s, i, i), g2 |-> SubSeq(s, i + 2, i + 3)])
    ELSE None

\* number of whitespace characters from position j on
RECURSIVE SpaceRun(_, _)
SpaceRun(s, j) ==
    IF j <= Len(s) /\ IsSpace(s[j]) THEN 1 + SpaceRun(s, j + 1) ELSE 0

\* the pattern matched at position i: the literal, then the longest run of
\* whitespace the quantifier allows for which the time still matches
\* (greedy, backing off one character at a time).  The groups, or None.
MatchAt(p, s, i) ==
    LET j == i + Len(p.lit)
        most == IF p.ws = "none" THEN 0 ELSE SpaceRun(s, j)
        least == IF p.ws = "plus" THEN 1 ELSE 0
        ok == {w \in least..most : MatchTime(s, j + w) # None}
    IN  IF j - 1 <= Len(s) /\ SubSeq(s, i, j - 1) = p.lit /\ ok # {}
        THEN MatchTime(s, j + (CHOOSE w \in ok : \A v \in ok : v <= w))
        ELSE None

\* re.search(pattern, message): the match at the leftmost position that has one
re_search(p, s) ==
    LET at == {i \in 1..Len(s) : MatchAt(p, s, i) # None}
    IN  IF at = {} THEN None
        ELSE MatchAt(p, s, CHOOSE i \in at : \A h \in at : i <= h)

RECURSIVE first_match(_, _, _)
first_match(pats, message, n) ==
    IF n > Len(pats) THEN None
    ELSE LET match == re_search(pats[n], message)
         IN  IF match # None
             THEN Some(int(match[1].g1) * 60 + int(match[1].g2))
             ELSE first_match(pats, message, n + 1)

extract_timestamp_on_first(message) == first_match(patterns_on_first, message, 1)

extract_timestamp(message) == first_match(patterns, message, 1)

----------------------------------------------------------------------------
(* extract_timestamp applied to bounded messages: the example queries and  *)
(* every concatenation of at most MaxTokens tokens.                        *)

QueryHappensAt ==
    <<"w", "h", "a", "t", " ", "h", "a", "p", "p", "e", "n", "s", " ", "a", "t", " ", "2", ":", "0", "5">>

QueryOn ==
    <<"o", "n", " ", "3", ":", "1", "1">>

QueryBare ==
    <<"2", ":", "0", "1">>

QueryNoTime ==
    <<"n", "o", " ", "t", "i", "m", "e", " ", "h", "e", "r", "e">>

QueryAtThenOn ==
    <<"a", "t", " ", "1", ":", "0", "0", " ", "o", "n", " ", "2", ":", "0", "0">>

\* a time with an hours field
QueryHours ==
    <<"a", "t", " ", "1", ":", "0", "2", ":", "0", "3">>

\* a time with three minute digits
QueryLongMinutes ==
    <<"1", "2", "3", ":", "4", "5">>

Tokens ==
    { <<"a", "t">>,
      <<"o", "n">>,
      <<"@">>,
      <<" ">>,
      <<"2", ":", "0", "5">>,
      <<"1", "3", ":", "1", "1">>,
      <<":">>,
      <<"9">> }

RECURSIVE Flatten(_)
Flatten(ts) == IF ts = <<>> THEN <<>> ELSE Head(ts) \o Flatten(Tail(ts))

\* the example queries and the concatenations of at most max tokens
Messages(max) ==
    {QueryHappensAt, QueryOn, QueryBare, QueryNoTime, QueryAtThenOn, QueryHours,
     QueryLongMinutes}
      \cup UNION {{Flatten(ts) : ts \in [1..n -> Tokens]} : n \in 0..max}

InitTimestamp ==
    /\ InitSystemIdle
    /\ \E m \in Messages(MaxTokens) :
         probe = [fn |-> "extract_timestamp", message |-> m,
                  called |-> FALSE, timestamp |-> None]

CallTimestamp ==
    /\ probe.fn = "extract_timestamp"
    /\ ~probe.called
    /\ probe' = [probe EXCEPT !.called = TRUE,
                              !.timestamp = extract_timestamp(probe.message)]
    /\ UNCHANGED sysvars

NextTimestamp == CallTimestamp

SpecTimestamp == InitTimestamp /\ [][NextTimestamp]_vars

----------------------------------------------------------------------------
(* F5_chatnode.get_transcript_context.  The start and end of a snippet are *)
(* floats in the code; the model counts them in half seconds, so that a    *)
(* start of 145.5 s is the number 291.  A timestamp and a window are whole *)
(* seconds, as extract_timestamp and rag_node produce them.                *)

\* a whole number of seconds, in half seconds
Sec(n) == 2 * n

\* int(start): the whole seconds of a time given in half seconds
int_seconds(t) == t \div 2

\* str(n) for n >= 0
RECURSIVE str(_)
str(n) == IF n < 10 THEN <<Digits[n + 1]>> ELSE str(n \div 10) \o <<Digits[(n % 10) + 1]>>

\* f"{n:02d}" for n >= 0
str02d(n) == IF n < 10 THEN <<"0">> \o str(n) ELSE str(n)

\* f"{mins}:{secs:02d}" of a start time
time_marker(start) ==
    LET mins == int_seconds(start) \div 60
        secs == int_seconds(start) % 60
    IN  str(mins) \o <<":">> \o str02d(secs)

SpeechLabel ==
    <<" ", "-", " ", "S", "p", "e", "e", "c", "h", "]", " ">>

ScreenLabel ==
    <<" ", "-", " ", "S", "c", "r", "e", "e", "n", "]", " ">>

\* f"[{mins}:{secs:02d} - Speech] {text}"
speech_line(start, text) == <<"[">> \o time_marker(start) \o SpeechLabel \o text

\* f"[{mins}:{secs:02d} - Screen] {text}"
screen_line(start, text) == <<"[">> \o time_marker(start) \o ScreenLabel \o text

\* "\n".join(lines)
RECURSIVE join_lines(_)
join_lines(lines) ==
    IF lines = <<>> THEN <<>>
    ELSE IF Len(lines) = 1 THEN lines[1]
    ELSE lines[1] \o <<"\n">> \o join_lines(Tail(lines))

\* the condition of the loop over the transcript, for one entry t
in_window(t, timestamp, window) ==
    \/ (t.start >= Sec(timestamp - window) /\ t.start <= Sec(timestamp + window))
    \/ (t.end >= Sec(timestamp - window) /\ t.end <= Sec(timestamp + window))

\* the window open at both ends
in_window_strict(t, timestamp, window) ==
    \/ (t.start > Sec(timestamp - window) /\ t.start < Sec(timestamp + window))
    \/ (t.end > Sec(timestamp - window) /\ t.end < Sec(timestamp + window))

\* the lines appended for the entries of a list, in order
speech_lines(entries) ==
    [i \in 1..Len(entries) |-> speech_line(entries[i].start, entries[i].text)]

\* the function with the window open at both ends
get_transcript_context_strict(transcript, timestamp, window) ==
    IF transcript = <<>> THEN <<>>
    ELSE IF timestamp # None
    THEN join_lines(speech_lines(
             SelectSeq(transcript, LAMBDA t : in_window_strict(t, timestamp[1], window))))
    ELSE join_lines(speech_lines(transcript))

\* the function keeping every entry that overlaps the window
get_transcript_context_overlap(transcript, timestamp, window) ==
    IF transcript = <<>> THEN <<>>
    ELSE IF timestamp # None
    THEN join_lines(speech_lines(
             SelectSeq(transcript,
                       LAMBDA t : /\ t.start <= Sec(timestamp[1] + window)
                                  /\ t.end >= Sec(timestamp[1] - window))))
    ELSE join_lines(speech_lines(transcript))

\* transcript is what load_transcript(video_id) returned; timestamp is None
\* or Some(seconds)
get_transcript_context(transcript, timestamp, window) ==
    IF transcript = <<>> THEN <<>>
    ELSE IF timestamp # None
    THEN join_lines(speech_lines(
             SelectSeq(transcript, LAMBDA t : in_window(t, timestamp[1], window))))
    ELSE join_lines(speech_lines(transcript))

----------------------------------------------------------------------------
(* get_transcript_context applied to bounded transcripts: at most MaxLines *)
(* entries, placed around the edges of the windows [55, 145] and [90, 110].*)

\* starts and ends tried, in half seconds: 54.5, 55, 100, 144, 145, 146 and
\* 150 seconds
TimePoints == {109, 110, 200, 288, 290, 292, 300}

Intervals == {iv \in TimePoints \X TimePoints : iv[1] <= iv[2]}

LineTexts == <<<<"a">>, <<"b", "c">>, <<"d">>, <<"e">>>>

\* the transcripts of at most max entries
Transcripts(max) ==
    UNION {{[i \in 1..n |-> [text |-> LineTexts[i], start |-> ivs[i][1], end |-> ivs[i][2]]] :
              ivs \in [1..n -> Intervals]} : n \in 0..max}

InitWindow ==
    /\ InitSystemIdle
    /\ \E tr \in Transcripts(MaxLines), ts \in {None, Some(100)}, w \in {10, 45} :
         probe = [fn |-> "get_transcript_context", transcript |-> tr, timestamp |-> ts,
                  window |-> w, called |-> FALSE, context |-> <<>>]

CallWindow ==
    /\ probe.fn = "get_transcript_context"
    /\ ~probe.called
    /\ probe' = [probe EXCEPT !.called = TRUE,
                   !.context = get_transcript_context(probe.transcript, probe.timestamp,
                                                      probe.window)]
    /\ UNCHANGED sysvars

NextWindow == CallWindow

SpecWindow == InitWindow /\ [][NextWindow]_vars

----------------------------------------------------------------------------
(* F5_ingest.ingest_video: the frame sampling loop.                        *)
(*                                                                         *)
(* A stream is [fps8, nframes, ocr]: fps8 is the frame rate that           *)
(* cap.get(CAP_PROP_FPS) reports, in eighths of a frame per second (0 when *)
(* the backend reports none), nframes the number of frames cap.read()      *)
(* delivers before it returns ret = False, and ocr the texts that          *)
(* ocr_frame recognizes on the sampled frames, in order (repeated          *)
(* cyclically when the stream has more sampled frames than ocr has texts). *)

sample_every_sec == 8

max_frames_budget == 120

\* the "or 25" of fps = cap.get(cv2.CAP_PROP_FPS) or 25, in eighths
default_fps8 == 200

\* fps * 8 as the loop uses it: frame_interval = int(fps * sample_every_sec)
frame_interval(stream) == IF stream.fps8 = 0 THEN default_fps8 ELSE stream.fps8

\* text.lstrip()
RECURSIVE lstrip(_)
lstrip(text) ==
    IF text # <<>> /\ IsSpace(Head(text)) THEN lstrip(Tail(text)) ELSE text

\* text.rstrip()
RECURSIVE rstrip(_)
rstrip(text) ==
    IF text # <<>> /\ IsSpace(text[Len(text)])
    THEN rstrip(SubSeq(text, 1, Len(text) - 1))
    ELSE text

\* text.strip()
strip(text) == rstrip(lstrip(text))

\* ocr_frame(frame) for the frame numbered frame_count, a sampled frame
ocr_frame(stream, frame_count) ==
    IF stream.ocr = <<>> THEN <<>>
    ELSE stream.ocr[((frame_count \div frame_interval(stream)) % Len(stream.ocr)) + 1]

\* timestamp = frame_count / fps, in half seconds; exact on a sampled frame,
\* whose frame_count is a multiple of frame_interval = 8 * fps
frame_timestamp(stream, frame_count) ==
    (frame_count * Sec(sample_every_sec)) \div frame_interval(stream)

\* the test with >= in place of >
keeps_text_ge(text) == text # <<>> /\ Len(strip(text)) >= 10

\* the test that keeps a recognized text: if text and len(text.strip()) > 10
keeps_text(text) == text # <<>> /\ Len(strip(text)) > 10

visual_doc(text, timestamp) ==
    [page_content |-> text, start |-> timestamp,
     end |-> timestamp + Sec(sample_every_sec), source |-> "visual"]

speech_doc(t) ==
    [page_content |-> t.text, start |-> t.start, end |-> t.end, source |-> "speech"]

\* the while loop from frame frame_count on.  docs are the documents so far,
\* sampled the (frame_count, text) pairs given by ocr_frame so far.
RECURSIVE frame_loop(_, _, _, _, _)
frame_loop(stream, frame_count, max_frames, docs, sampled) ==
    IF ~(max_frames > 0) \/ frame_count >= stream.nframes
    THEN [docs |-> docs, sampled |-> sampled]
    ELSE IF frame_count % frame_interval(stream) = 0
    THEN LET timestamp == frame_timestamp(stream, frame_count)
             text == ocr_frame(stream, frame_count)
             seen == Append(sampled, [frame_count |-> frame_count, text |-> text])
         IN  IF keeps_text(text)
             THEN frame_loop(stream, frame_count + 1, max_frames - 1,
                             Append(docs, visual_doc(text, timestamp)), seen)
             ELSE frame_loop(stream, frame_count + 1, max_frames, docs, seen)
    ELSE frame_loop(stream, frame_count + 1, max_frames, docs, sampled)

\* the documents ingest_video collects from a transcript and an opened
\* stream, and the frames it gave to ocr_frame
collect_docs(transcript, stream) ==
    frame_loop(stream, 0, max_frames_budget,
               [i \in 1..Len(transcript) |-> speech_doc(transcript[i])], <<>>)

----------------------------------------------------------------------------
(* The sampling loop applied to bounded streams: at most MaxSampled        *)
(* sampled frames, each with one of the texts of OcrTexts.                 *)

OcrTexts ==
    { <<>>,
      <<" ", " ", " ">>,
      <<"x", "x", "x", "x", "x", "x", "x", "x", "x", "x">>,
      <<"x", "x", "x", "x", "x", "x", "x", "x", "x", "x", "x">>,
      <<" ", "x", "x", "x", "x", "x", "x", "x", "x", "x", "x", " ">>,
      <<" ", " ", "x", "x", "x", "x", "x", "x", "x", "x", "x", "x", "x", "\n">>,
      <<"x", "x", "x", "x", "x", " ", "x", "x", "x", "x", "x">>,
      <<"x", "x", "x", "x", "x", "x", "x", "x", "x", " ", " ">> }

\* the streams of rate fps8 with n sampled frames and r further frames
StreamsOf(fps8, n, r) ==
    LET interval == IF fps8 = 0 THEN default_fps8 ELSE fps8
    IN  {[fps8 |-> fps8,
          nframes |-> IF n = 0 THEN 0 ELSE (n - 1) * interval + 1 + r,
          ocr |-> o] : o \in [1..n -> OcrTexts]}

\* the streams of at most max sampled frames
Streams(max) ==
    UNION {StreamsOf(f, n, r) : f \in {1, 2}, n \in 0..max, r \in {0, 1}}
      \cup StreamsOf(0, 1, 1)

InitFrames ==
    /\ InitSystemIdle
    /\ \E st \in Streams(MaxSampled) :
         probe = [fn |-> "collect_docs", stream |-> st, called |-> FALSE,
                  docs |-> <<>>, sampled |-> <<>>]

CallFrames ==
    /\ probe.fn = "collect_docs"
    /\ ~probe.called
    /\ LET r == collect_docs(<<>>, probe.stream)
       IN  probe' = [probe EXCEPT !.called = TRUE, !.docs = r.docs, !.sampled = r.sampled]
    /\ UNCHANGED sysvars

NextFrames == CallFrames

SpecFrames == InitFrames /\ [][NextFrames]_vars

----------------------------------------------------------------------------
(* The sampling loop run pass by pass on long streams: every frame is      *)
(* sampled (frame_interval 1) and the stream delivers about max_frames     *)
(* frames; the texts of ocr repeat cyclically.                             *)

\* numbers of frames around the budget
BudgetFrames ==
    {max_frames_budget - 1, max_frames_budget, max_frames_budget + 1, max_frames_budget + 2}

BudgetStreams ==
    {[fps8 |-> 1, nframes |-> n, ocr |-> o] :
        n \in BudgetFrames, o \in [1..1 -> OcrTexts] \cup [1..2 -> OcrTexts]}

InitBudget ==
    /\ InitSystemIdle
    /\ \E st \in BudgetStreams :
         probe = [fn |-> "frame_budget", stream |-> st, frame_count |-> 0,
                  max_frames |-> max_frames_budget, released |-> FALSE,
                  docs |-> <<>>, sampled |-> <<>>]

\* one pass of the while loop: cap.read(), and for a sampled frame
\* ocr_frame and the noise filter
ReadFrame ==
    /\ probe.fn = "frame_budget"
    /\ ~probe.released
    /\ probe.max_frames > 0
    /\ probe.frame_count < probe.stream.nframes
    /\ LET text == ocr_frame(probe.stream, probe.frame_count)
           is_sampled == probe.frame_count % frame_interval(probe.stream) = 0
           kept == is_sampled /\ keeps_text(text)
       IN  probe' = [probe EXCEPT
              !.frame_count = @ + 1,
              !.max_frames = IF kept THEN @ - 1 ELSE @,
              !.docs = IF kept
                       THEN Append(@, visual_doc(text, frame_timestamp(probe.stream,
                                                                        probe.frame_count)))
                       ELSE @,
              !.sampled = IF is_sampled
                          THEN Append(@, [frame_count |-> probe.frame_count, text |-> text])
                          ELSE @]
    /\ UNCHANGED sysvars

\* the loop ends: max_frames is 0 or cap.read() returns ret = False;
\* cap.release()
ReleaseStream ==
    /\ probe.fn = "frame_budget"
    /\ ~probe.released
    /\ ~(probe.max_frames > 0) \/ probe.frame_count >= probe.stream.nframes
    /\ probe' = [probe EXCEPT !.released = TRUE]
    /\ UNCHANGED sysvars

NextBudget == ReadFrame \/ ReleaseStream

SpecBudget == InitBudget /\ [][NextBudget]_vars

----------------------------------------------------------------------------
(* The world outside the server: the videos behind the URLs.  A URL is a   *)
(* sequence of tokens, so that "in" and split() of the video-id extraction *)
(* work on the places where "youtu.be/", "v=", "?" and "&" occur.          *)

Users == {"u1"}

Chats == {"c1"}

UrlShortA == <<"https://", "youtu.be/", "A">>

UrlWatchB == <<"https://www.youtube.com/watch?", "v=", "B", "&", "t=5">>

\* a URL of neither supported shape
UrlOther == <<"https://", "example.com/", "x">>

Urls == {UrlShortA, UrlWatchB, UrlOther}

FormulaText ==
    <<"F", " ", "=", " ", "m", " ", "*", " ", "a", " ", "i", "s">>

\* what the transcript API holds for a video: video A has one spoken line
\* from 10 s to 14 s, video B one from 300 s to 304 s
VideoTranscript(video_id) ==
    IF video_id = <<"A">>
    THEN <<[text |-> <<"l", "a", "w">>, start |-> Sec(10), end |-> Sec(14)]>>
    ELSE <<[text |-> <<"e", "n", "d">>, start |-> Sec(300), end |-> Sec(304)]>>

\* the frames of a video: video A shows noise at 0 s and a formula at 8 s,
\* video B shows nothing that survives the noise filter
VideoStream(video_id) ==
    IF video_id = <<"A">>
    THEN [fps8 |-> 1, nframes |-> 2, ocr |-> <<<<"x", " ">>, FormulaText>>]
    ELSE [fps8 |-> 2, nframes |-> 3, ocr |-> <<<<" ", "x", "\n">>, <<>>>>]

QueryAt010 ==
    <<"a", "t", " ", "0", ":", "1", "0">>

QueryPlain ==
    <<"w", "h", "y">>

Queries == {QueryAt010, QueryPlain}

FallbackAnswer == <<"I don't have information about that topic from this video. ...">>

LlmAnswer == <<"(text returned by llm.invoke)">>

----------------------------------------------------------------------------
(* F5_meta_db: the indexed_videos table, a set of rows                     *)
(* [user_id, chat_id, youtube_url, faiss_dir]                              *)

\* the rows of a key
index_rows(table, user_id, chat_id, url) ==
    {r \in table : r.user_id = user_id /\ r.chat_id = chat_id /\ r.youtube_url = url}

get_index_never_found(table, user_id, chat_id, url) == None

\* SELECT faiss_dir ... WHERE user_id=? AND chat_id=? AND youtube_url=?; fetchone()
get_index(table, user_id, chat_id, url) ==
    IF index_rows(table, user_id, chat_id, url) # {}
    THEN Some((CHOOSE r \in index_rows(table, user_id, chat_id, url) : TRUE).faiss_dir)
    ELSE None

\* a plain INSERT that leaves the rows of the key in place
save_index_insert(table, user_id, chat_id, url, faiss_dir) ==
    table \cup {[user_id |-> user_id, chat_id |-> chat_id, youtube_url |-> url,
                 faiss_dir |-> faiss_dir]}

\* INSERT OR REPLACE on the primary key (user_id, chat_id, youtube_url)
save_index(table, user_id, chat_id, url, faiss_dir) ==
    (table \ index_rows(table, user_id, chat_id, url))
      \cup {[user_id |-> user_id, chat_id |-> chat_id, youtube_url |-> url,
              faiss_dir |-> faiss_dir]}

\* DELETE ... WHERE user_id=? AND chat_id=?
delete_chat_index(table, user_id, chat_id) ==
    {r \in table : ~(r.user_id = user_id /\ r.chat_id = chat_id)}

----------------------------------------------------------------------------
(* F5_history_db: the chat_messages table, per <<user_id, chat_id>> the    *)
(* rows in the order of their insertion                                    *)

history_limit == 8

chat_rows(table, user_id, chat_id) ==
    IF <<user_id, chat_id>> \in DOMAIN table THEN table[<<user_id, chat_id>>] ELSE <<>>

save_message(table, user_id, chat_id, role, content) ==
    [key \in DOMAIN table \cup {<<user_id, chat_id>>} |->
        IF key = <<user_id, chat_id>>
        THEN Append(chat_rows(table, user_id, chat_id), [role |-> role, content |-> content])
        ELSE table[key]]

\* ORDER BY ts ASC LIMIT ?
load_history(table, user_id, chat_id, limit) == Take(chat_rows(table, user_id, chat_id), limit)

load_full_history(table, user_id, chat_id) == chat_rows(table, user_id, chat_id)

chat_exists(table, user_id, chat_id) == chat_rows(table, user_id, chat_id) # <<>>

delete_chat(table, user_id, chat_id) ==
    [key \in DOMAIN table \ {<<user_id, chat_id>>} |-> table[key]]

----------------------------------------------------------------------------
(* F5_chatnode.ingest_node and F5_ingest.ingest_video *)

Has(s, tok) == \E i \in 1..Len(s) : s[i] = tok

FirstAt(s, tok) == CHOOSE i \in 1..Len(s) : s[i] = tok /\ \A h \in 1..(i - 1) : s[h] # tok

\* s.split(tok)[0]
split_0(s, tok) == IF Has(s, tok) THEN SubSeq(s, 1, FirstAt(s, tok) - 1) ELSE s

\* s.split(tok)[1], for s that contains tok
split_1(s, tok) == split_0(SubSeq(s, FirstAt(s, tok) + 1, Len(s)), tok)

\* a URL of another shape given an empty video id instead of the error
extract_video_id_lenient(youtube_url) ==
    IF Has(youtube_url, "youtu.be/")
    THEN Some(split_0(split_1(youtube_url, "youtu.be/"), "?"))
    ELSE IF Has(youtube_url, "v=")
    THEN Some(split_0(split_1(youtube_url, "v="), "&"))
    ELSE Some(<<>>)

\* the video id of a URL, or None where the code raises IndexError
extract_video_id(youtube_url) ==
    IF Has(youtube_url, "youtu.be/")
    THEN Some(split_0(split_1(youtube_url, "youtu.be/"), "?"))
    ELSE IF Has(youtube_url, "v=")
    THEN Some(split_0(split_1(youtube_url, "v="), "&"))
    ELSE None

\* load_transcript(video_id): the transcript, or [] when the API raises;
\* entries whose text is blank are left out
load_transcript(video_id, api_ok) ==
    IF api_ok
    THEN SelectSeq(VideoTranscript(video_id), LAMBDA t : strip(t.text) # <<>>)
    ELSE <<>>

\* create_faiss(docs, persist_dir): FAISS.from_documents sizes the index from
\* the first embedding (len(embeddings[0])), so it raises IndexError for an
\* empty docs list, before anything is saved.  TRUE when it raises.
create_faiss_raises(docs) == docs = <<>>

\* str(base_dir / str(uuid.uuid4())): the n-th name handed out
new_faiss_dir(user_id, chat_id, n) == <<"./f5_store", user_id, chat_id, n>>

\* ingest_video going on without frames when the stream is not opened
ingest_video_ignores_unopened(youtube_url, user_id, chat_id, n, api_ok, opened) ==
    LET video_id == extract_video_id(youtube_url)[1]
        transcript == load_transcript(video_id, api_ok)
        docs == collect_docs(transcript,
                             IF opened THEN VideoStream(video_id)
                             ELSE [VideoStream(video_id) EXCEPT !.nframes = 0, !.ocr = <<>>]).docs
    IN  IF create_faiss_raises(docs)
        THEN [raised |-> "IndexError", faiss_dir |-> None, docs |-> Some(docs)]
        ELSE [raised |-> "", faiss_dir |-> Some(new_faiss_dir(user_id, chat_id, n)),
              docs |-> Some(docs)]

\* ingest_video(youtube_url, base_dir).  api_ok: the transcript API answers;
\* opened: get_stream_url and cv2.VideoCapture deliver an opened stream.
\* Gives [raised, faiss_dir, docs]: the error raised or "", the directory
\* written and the documents saved in it.
ingest_video(youtube_url, user_id, chat_id, n, api_ok, opened) ==
    LET video_id == extract_video_id(youtube_url)[1]
        transcript == load_transcript(video_id, api_ok)
        docs == collect_docs(transcript, VideoStream(video_id)).docs
    IN  IF ~opened
        THEN [raised |-> "RuntimeError", faiss_dir |-> None, docs |-> None]
        ELSE IF create_faiss_raises(docs)
        THEN [raised |-> "IndexError", faiss_dir |-> None, docs |-> Some(docs)]
        ELSE [raised |-> "", faiss_dir |-> Some(new_faiss_dir(user_id, chat_id, n)),
              docs |-> Some(docs)]

\* ingest_node for the request (user_id, chat_id, youtube_url) on the tables
\* meta (indexed_videos) and store (f5_store).  Gives the tables after it,
\* the error raised or "", the faiss_dir put in the state, the number of
\* calls of ingest_video and the documents handed to create_faiss.
ingest_node(meta, store, n, user_id, chat_id, youtube_url, api_ok, opened) ==
    LET same == [raised |-> "", meta |-> meta, store |-> store, uuids |-> 0,
                 faiss_dir |-> None, builds |-> 0, built_docs |-> None]
        cached == get_index(meta, user_id, chat_id, youtube_url)
    IN  IF extract_video_id(youtube_url) = None
        THEN [same EXCEPT !.raised = "IndexError"]
        ELSE IF cached # None
        THEN [same EXCEPT !.faiss_dir = cached]
        ELSE LET r == ingest_video(youtube_url, user_id, chat_id, n, api_ok, opened)
             IN  IF r.raised # ""
                 THEN [same EXCEPT !.raised = r.raised, !.builds = 1,
                                   !.uuids = IF r.docs = None THEN 0 ELSE 1,
                                   !.built_docs = r.docs]
                 ELSE [raised |-> "",
                       meta |-> save_index(meta, user_id, chat_id, youtube_url, r.faiss_dir[1]),
                       store |-> [d \in DOMAIN store \cup {r.faiss_dir[1]} |->
                                     IF d = r.faiss_dir[1] THEN r.docs[1] ELSE store[d]],
                       uuids |-> 1,
                       faiss_dir |-> r.faiss_dir,
                       builds |-> 1,
                       built_docs |-> r.docs]

----------------------------------------------------------------------------
(* F5_chatnode.rag_node *)

rag_k == 15

rag_window == 45

timestamps_limit == 10

\* the order of str comparison on the characters of a time marker
CharCode(c) == IF c = ":" THEN 58 ELSE 48 + DigitVal(c)

\* a < b for two strings, as Python compares them
RECURSIVE str_less(_, _)
str_less(a, b) ==
    IF b = <<>> THEN FALSE
    ELSE IF a = <<>> THEN TRUE
    ELSE IF Head(a) # Head(b) THEN CharCode(Head(a)) < CharCode(Head(b))
    ELSE str_less(Tail(a), Tail(b))

\* sorted(set(strings))
RECURSIVE sorted_set(_)
sorted_set(S) ==
    IF S = {} THEN <<>>
    ELSE LET least == CHOOSE x \in S : \A y \in S \ {x} : str_less(x, y)
         IN  <<least>> \o sorted_set(S \ {least})

\* the check skipped
has_context_always(transcript_context, ocr_context) == TRUE

\* bool(transcript_context.strip() or ocr_context.strip())
has_context(transcript_context, ocr_context) ==
    strip(transcript_context) # <<>> \/ strip(ocr_context) # <<>>

\* the test that puts a retrieved screen document in timestamp_ocr
ocr_at_timestamp(d, timestamp) ==
    \/ (d.start <= Sec(timestamp) /\ Sec(timestamp) <= d.end)
    \/ (d.start - Sec(timestamp) <= Sec(rag_window)
          /\ Sec(timestamp) - d.start <= Sec(rag_window))

doc_speech_lines(docs) == [i \in 1..Len(docs) |-> speech_line(docs[i].start, docs[i].page_content)]

doc_screen_lines(docs) == [i \in 1..Len(docs) |-> screen_line(docs[i].start, docs[i].page_content)]

PrimaryHeader == <<"=== PRIMARY SOURCE: WHAT THE INSTRUCTOR SAID (VERBAL EXPLANATION) ===">>

SupplementaryHeader == <<"=== SUPPLEMENTARY SOURCE: WHAT'S ON THE SCREEN (VISUAL CONTENT) ===">>

\* the screen block put before the speech block
full_context_visual_first(transcript_context, ocr_context) ==
    join_lines((IF strip(ocr_context) # <<>>
                THEN <<SupplementaryHeader, ocr_context, <<>>>> ELSE <<>>)
               \o (IF strip(transcript_context) # <<>>
                   THEN <<PrimaryHeader, transcript_context>> ELSE <<>>))

\* "\n".join(context_parts)
full_context(transcript_context, ocr_context) ==
    join_lines((IF strip(transcript_context) # <<>>
                THEN <<PrimaryHeader, transcript_context, <<>>>> ELSE <<>>)
               \o (IF strip(ocr_context) # <<>>
                   THEN <<SupplementaryHeader, ocr_context>> ELSE <<>>))

\* the exception of llm.invoke swallowed and an answer made up
llm_invoke_fabricates(llm_ok) == Some(LlmAnswer)

\* llm.invoke(messages).content, None when the call raises or times out
llm_invoke(llm_ok) == IF llm_ok THEN Some(LlmAnswer) ELSE None

\* load_faiss(persist_dir): the documents saved there, None when it raises
load_faiss(store, faiss_dir) ==
    IF faiss_dir \in DOMAIN store THEN Some(store[faiss_dir]) ELSE None

\* rag_node on the history table.  ranked: the index in the order of
\* similarity to the message; api_ok: the transcript API answers;
\* llm_ok: llm.invoke returns.  Gives the history table after it, the error
\* raised or "", the answer and timestamps of the output, the two context
\* blocks, the prompt context and history given to the LLM and the number of
\* calls of llm.invoke, and the number of calls of retrieve_with_priority
\* with the documents it returned.
rag_node(history, ranked, video_id, user_id, chat_id, message, api_ok, llm_ok) ==
    LET timestamp == extract_timestamp(message)
        docs == retrieve_with_priority(ranked, rag_k)
        transcript_docs == SelectSeq(docs, IsSpeech)
        ocr_docs == SelectSeq(docs, IsVisual)
        transcript_context ==
            IF timestamp # None
            THEN get_transcript_context(load_transcript(video_id, api_ok), timestamp, rag_window)
            ELSE join_lines(doc_speech_lines(transcript_docs))
        timestamp_ocr ==
            IF timestamp # None /\ ocr_docs # <<>>
            THEN doc_screen_lines(SelectSeq(ocr_docs,
                                            LAMBDA d : ocr_at_timestamp(d, timestamp[1])))
            ELSE <<>>
        ocr_context ==
            IF timestamp_ocr # <<>>
            THEN join_lines(timestamp_ocr)
            ELSE join_lines(doc_screen_lines(ocr_docs))
        all_docs == transcript_docs \o ocr_docs
        timestamps == sorted_set({time_marker(all_docs[i].start) : i \in 1..Len(all_docs)})
        out == [raised |-> "", history |-> history, answer |-> None, timestamps |-> <<>>,
                retrieve_calls |-> 1, retrieved |-> docs,
                transcript_context |-> transcript_context, ocr_context |-> ocr_context,
                llm_calls |-> 0, llm_context |-> <<>>, llm_history |-> <<>>]
        asked == [out EXCEPT
                    !.llm_calls = 1,
                    !.llm_context = full_context(transcript_context, ocr_context),
                    !.llm_history = load_history(history, user_id, chat_id, history_limit)]
    IN  IF ~has_context(transcript_context, ocr_context)
        THEN [out EXCEPT !.answer = Some(FallbackAnswer)]
        ELSE IF llm_invoke(llm_ok) = None
        THEN [asked EXCEPT !.raised = "LLMError"]
        ELSE [asked EXCEPT
                !.answer = llm_invoke(llm_ok),
                !.timestamps = Take(timestamps, timestamps_limit),
                !.history = save_message(
                                save_message(history, user_id, chat_id, "human", message),
                                user_id, chat_id, "ai", llm_invoke(llm_ok)[1])]

----------------------------------------------------------------------------
(* main.py: the /video_rag and /feature5_delete_chat endpoints, one        *)
(* request at a time                                                       *)

Orderings(s) ==
    {[i \in 1..Len(s) |-> s[f[i]]] :
        f \in {g \in [1..Len(s) -> 1..Len(s)] : \A a, b \in 1..Len(s) : g[a] = g[b] => a = b}}

Keys == Users \X Chats \X Urls

Init ==
    /\ indexed_videos = {}
    /\ threads = <<>>
    /\ cursors = <<>>
    /\ f5_store = <<>>
    /\ chat_messages = <<>>
    /\ uuid_next = 0
    /\ resp = [op |-> "none"]
    /\ runs = [key \in Keys |-> <<>>]
    /\ probe = NoProbe

\* the last two runs of ingest_node that reached the cache lookup for a key
\* since the chat was deleted
note_run(log, key, run) ==
    [log EXCEPT ![key] = IF Len(@) < 2 THEN Append(@, run) ELSE <<@[2], run>>]

\* what fails during one request: nothing, the transcript API (load_transcript
\* then returns []), the video stream (it cannot be opened) or the LLM call
Faults == {"none", "transcript", "stream", "llm"}

\* a fault shows in a request that reaches the failing call: the transcript
\* API is called by ingest_video and, for a message with a timestamp, by
\* rag_node
shows(fault, builds, rag_ran, llm_calls, message) ==
    \/ fault = "stream"
    \/ fault = "llm" /\ llm_calls = 1
    \/ fault = "transcript" /\ (builds = 1 \/ (rag_ran /\ extract_timestamp(message) # None))

\* video_rag(data): video_rag_graph.invoke runs ingest_node, then rag_node;
\* an exception of either becomes the HTTP 500 response
video_rag(user_id, chat_id, youtube_url, message) ==
    /\ \E fault \in Faults :
       \* a stream that cannot be opened shows only when ingest_video runs
       /\ fault = "stream" =>
            /\ extract_video_id(youtube_url) # None
            /\ get_index(indexed_videos, user_id, chat_id, youtube_url) = None
       /\ \E ing \in {ingest_node(indexed_videos, f5_store, uuid_next,
                                user_id, chat_id, youtube_url,
                                fault # "transcript", fault # "stream")} :
         LET key == <<user_id, chat_id, youtube_url>>
             base == [op |-> "video_rag", key |-> key, message |-> message,
                      fault |-> IF shows(fault, ing.builds, FALSE, 0, message) THEN fault ELSE "none",
                      status |-> 500, raised |-> ing.raised,
                      node |-> "ingest",
                      faiss_dir |-> ing.faiss_dir, builds |-> ing.builds,
                      built_docs |-> ing.built_docs, answer |-> None, timestamps |-> <<>>,
                      transcript_context |-> <<>>, ocr_context |-> <<>>,
                      llm_calls |-> 0, llm_context |-> <<>>, llm_history |-> <<>>,
                      messages |-> <<>>]
         IN  /\ uuid_next + ing.uuids <= MaxBuilds
             /\ indexed_videos' = ing.meta
             /\ f5_store' = ing.store
             /\ uuid_next' = uuid_next + ing.uuids
             /\ runs' = IF extract_video_id(youtube_url) = None
                        THEN runs
                        ELSE note_run(runs, key, [raised |-> ing.raised,
                                                  faiss_dir |-> ing.faiss_dir,
                                                  builds |-> ing.builds])
             /\ IF ing.raised # ""
                THEN /\ resp' = base
                     /\ UNCHANGED chat_messages
                ELSE /\ IF load_faiss(ing.store, ing.faiss_dir[1]) = None
                        THEN /\ resp' = [base EXCEPT !.raised = "RuntimeError", !.node = "load_faiss"]
                             /\ UNCHANGED chat_messages
                        ELSE \E ranked \in Orderings(load_faiss(ing.store, ing.faiss_dir[1])[1]) :
                             \E rag \in {rag_node(chat_messages, ranked,
                                                   extract_video_id(youtube_url)[1],
                                                   user_id, chat_id, message,
                                                   fault # "transcript", fault # "llm")} :
                                   /\ Len(chat_rows(rag.history, user_id, chat_id)) <= MaxMessages
                                   /\ chat_messages' = rag.history
                                   /\ resp' = [base EXCEPT
                                        !.fault = IF shows(fault, ing.builds, TRUE, rag.llm_calls, message)
                                                  THEN fault ELSE "none",
                                        !.status = IF rag.raised = "" THEN 200 ELSE 500,
                                        !.raised = rag.raised,
                                        !.node = "rag",
                                        !.answer = rag.answer,
                                        !.timestamps = rag.timestamps,
                                        !.transcript_context = rag.transcript_context,
                                        !.ocr_context = rag.ocr_context,
                                        !.llm_calls = rag.llm_calls,
                                        !.llm_context = rag.llm_context,
                                        !.llm_history = rag.llm_history,
                                        !.messages = IF rag.raised = ""
                                                     THEN load_full_history(rag.history, user_id, chat_id)
                                                     ELSE <<>>]
    /\ UNCHANGED <<probe, threads, cursors>>

\* feature5_delete_chat(data): 404 for a chat without messages, else the
\* chat's messages, its rows of indexed_videos and its directory are removed
feature5_delete_chat(user_id, chat_id) ==
    /\ IF ~chat_exists(chat_messages, user_id, chat_id)
       THEN /\ resp' = [op |-> "delete", user_id |-> user_id, chat_id |-> chat_id,
                        status |-> 404]
            /\ UNCHANGED <<indexed_videos, f5_store, chat_messages, runs>>
       ELSE /\ chat_messages' = delete_chat(chat_messages, user_id, chat_id)
            /\ indexed_videos' = delete_chat_index(indexed_videos, user_id, chat_id)
            /\ f5_store' = [d \in {x \in DOMAIN f5_store :
                                      ~(x[2] = user_id /\ x[3] = chat_id)} |-> f5_store[d]]
            /\ runs' = [key \in DOMAIN runs |->
                          IF key[1] = user_id /\ key[2] = chat_id THEN <<>> ELSE runs[key]]
            /\ resp' = [op |-> "delete", user_id |-> user_id, chat_id |-> chat_id,
                        status |-> 200]
    /\ UNCHANGED <<uuid_next, probe, threads, cursors>>

VideoRagRequest ==
    \E user_id \in Users, chat_id \in Chats, youtube_url \in Urls, message \in Queries :
        video_rag(user_id, chat_id, youtube_url, message)

DeleteChatRequest ==
    \E user_id \in Users, chat_id \in Chats : feature5_delete_chat(user_id, chat_id)

Next == VideoRagRequest \/ DeleteChatRequest

Spec == Init /\ [][Next]_vars

----------------------------------------------------------------------------
(* Requests of one chat that name video A by its two URL shapes *)

\* the watch URL of video A
UrlWatchA == <<"https://www.youtube.com/watch?", "v=", "A">>

AliasUrls == {UrlShortA, UrlWatchA}

InitAlias ==
    /\ indexed_videos = {}
    /\ threads = <<>>
    /\ cursors = <<>>
    /\ f5_store = <<>>
    /\ chat_messages = <<>>
    /\ uuid_next = 0
    /\ resp = [op |-> "none"]
    /\ runs = [key \in Users \X Chats \X AliasUrls |-> <<>>]
    /\ probe = NoProbe

VideoRagAlias ==
    \E user_id \in Users, chat_id \in Chats, youtube_url \in AliasUrls, message \in Queries :
        video_rag(user_id, chat_id, youtube_url, message)

NextAlias == VideoRagAlias \/ DeleteChatRequest

SpecAlias == InitAlias /\ [][NextAlias]_vars

----------------------------------------------------------------------------
(* rag_node applied to bounded indexes: at most MaxDocs documents, speech  *)
(* and screen, starting at 10, 75.5 and 130 seconds, for a question with   *)
(* a timestamp and one without.                                            *)

QueryFormula ==
    <<"w", "h", "a", "t", "'", "s", " ", "t", "h", "e", " ", "f", "o", "r", "m", "u", "l", "a",
      " ", "a", "t", " ", "0", ":", "1", "0", "?">>

SpeechText == <<"l", "a", "w">>

ComposeStarts == {Sec(10), Sec(75) + 1, Sec(130)}

ComposeDocs ==
    {[page_content |-> SpeechText, start |-> st, end |-> st + Sec(4), source |-> "speech"] :
        st \in ComposeStarts}
      \cup {visual_doc(FormulaText, st) : st \in ComposeStarts}

\* the indexes of at most max documents, in similarity order
ComposeIndexes(max) == UNION {[1..n -> ComposeDocs] : n \in 0..max}

InitCompose ==
    /\ InitSystemIdle
    /\ \E ix \in ComposeIndexes(MaxDocs), m \in {QueryFormula, QueryPlain},
          v \in {<<"A">>, <<"B">>} :
         probe = [fn |-> "rag_node", index |-> ix, message |-> m, video_id |-> v,
                  called |-> FALSE, transcript_context |-> <<>>, ocr_context |-> <<>>,
                  llm_calls |-> 0, llm_context |-> <<>>, retrieve_calls |-> 0,
                  retrieved |-> <<>>, answer |-> None, timestamps |-> <<>>]

CallCompose ==
    /\ probe.fn = "rag_node"
    /\ ~probe.called
    /\ \E rag \in {rag_node(<<>>, probe.index, probe.video_id, "u1", "c1", probe.message,
                             TRUE, TRUE)} :
         probe' = [probe EXCEPT !.called = TRUE,
                                !.transcript_context = rag.transcript_context,
                                !.ocr_context = rag.ocr_context,
                                !.llm_calls = rag.llm_calls,
                                !.llm_context = rag.llm_context,
                                !.retrieve_calls = rag.retrieve_calls,
                                !.retrieved = rag.retrieved,
                                !.answer = rag.answer,
                                !.timestamps = rag.timestamps]
    /\ UNCHANGED sysvars

NextCompose == CallCompose

SpecCompose == InitCompose /\ [][NextCompose]_vars

----------------------------------------------------------------------------
(* rag_node applied to indexes whose documents all have different time     *)
(* markers: document i starts at 50 * i seconds, and the similarity order  *)
(* is a rotation of the order of the start times.                          *)

MarkedDoc(i, mixed) ==
    IF mixed /\ i % 2 = 0
    THEN visual_doc(FormulaText, Sec(50 * i))
    ELSE [page_content |-> SpeechText, start |-> Sec(50 * i), end |-> Sec(50 * i + 4),
          source |-> "speech"]

\* the n documents in similarity order: those from r + 1 on, then the first r
MarkedIndex(n, r, mixed) == [j \in 1..n |-> MarkedDoc(((j + r - 1) % n) + 1, mixed)]

InitMarkers ==
    /\ InitSystemIdle
    /\ \E n \in 0..MaxRanked, mixed \in BOOLEAN, m \in {QueryFormula, QueryPlain} :
         \E r \in 0..(IF n = 0 THEN 0 ELSE n - 1) :
            probe = [fn |-> "timestamps", index |-> MarkedIndex(n, r, mixed), message |-> m,
                     called |-> FALSE, retrieved |-> <<>>, answer |-> None,
                     timestamps |-> <<>>]

CallMarkers ==
    /\ probe.fn = "timestamps"
    /\ ~probe.called
    /\ \E rag \in {rag_node(<<>>, probe.index, <<"B">>, "u1", "c1", probe.message,
                             TRUE, TRUE)} :
         probe' = [probe EXCEPT !.called = TRUE,
                                !.retrieved = rag.retrieved,
                                !.answer = rag.answer,
                                !.timestamps = rag.timestamps]
    /\ UNCHANGED sysvars

NextMarkers == CallMarkers

SpecMarkers == InitMarkers /\ [][NextMarkers]_vars

----------------------------------------------------------------------------
(* rag_node applied to chats with a history: the chat holds the messages   *)
(* of at most MaxTurns answered requests, a human message and the ai       *)
(* answer for each.                                                        *)

\* the rows of a chat after the answered questions qs
turn_rows(qs) ==
    [i \in 1..(2 * Len(qs)) |->
        IF i % 2 = 1 THEN [role |-> "human", content |-> qs[(i + 1) \div 2]]
        ELSE [role |-> "ai", content |-> LlmAnswer]]

\* the history tables of chat (u1, c1) after at most max answered turns
Histories(max) ==
    UNION {{[key \in {<<"u1", "c1">>} |-> turn_rows(qs)] : qs \in [1..n -> Queries]} :
              n \in 0..max}

\* the index of video A as ingest_video builds it
IndexA == collect_docs(load_transcript(<<"A">>, TRUE), VideoStream(<<"A">>)).docs

InitHistory ==
    /\ InitSystemIdle
    /\ \E h \in Histories(MaxTurns) :
         probe = [fn |-> "history", history |-> h, called |-> FALSE,
                  llm_calls |-> 0, llm_history |-> <<>>, after |-> h]

CallHistory ==
    /\ probe.fn = "history"
    /\ ~probe.called
    /\ \E rag \in {rag_node(probe.history, IndexA, <<"A">>, "u1", "c1", QueryPlain,
                             TRUE, TRUE)} :
         probe' = [probe EXCEPT !.called = TRUE,
                                !.llm_calls = rag.llm_calls,
                                !.llm_history = rag.llm_history,
                                !.after = rag.history]
    /\ UNCHANGED sysvars

NextHistory == CallHistory

SpecHistory == InitHistory /\ [][NextHistory]_vars

----------------------------------------------------------------------------
(* Concurrent requests.  The endpoints are plain "def" functions, so the   *)
(* server runs each request on a thread of its pool; F5_meta_db and        *)
(* F5_history_db each share one connection and one module-level cursor     *)
(* among all threads.  A thread switch can fall between any two statements *)
(* that touch shared state, so a request is a sequence of steps, one per   *)
(* statement on a cursor, on the tables or on ./f5_store.  cursor.execute  *)
(* leaves the rows it selected in the cursor and fetchone/fetchall take    *)
(* them from there, whoever left them.  A statement on a cursor that       *)
(* another thread is using at the same moment can also raise               *)
(* sqlite3.ProgrammingError ("Recursive use of cursors not allowed").      *)

Threads == {"t1", "t2"}

RaceChats == {"c1", "c2"}

IdleThread ==
    [pc |-> "idle", op |-> "none", user_id |-> "", chat_id |-> "", youtube_url |-> <<>>,
     message |-> <<>>, lookup |-> None, faiss_dir |-> None, built_dir |-> None,
     builds |-> 0, build_overlap |-> FALSE, overwrote |-> None, llm_history |-> <<>>,
     answer |-> None, status |-> 0, raised |-> "", at |-> "", messages |-> <<>>,
     served |-> 0]

\* the statements on the cursor of F5_meta_db and on that of F5_history_db
MetaOps == {"get_index_execute", "get_index_fetchone", "save_index", "delete_chat_index"}

HistoryOps ==
    {"load_history_execute", "load_history_fetchall", "save_human", "save_ai",
     "full_history_execute", "full_history_fetchall",
     "chat_exists_execute", "chat_exists_fetchone", "delete_chat"}

cursor_of(pc) ==
    IF pc \in MetaOps THEN "meta" ELSE IF pc \in HistoryOps THEN "history" ELSE "none"

\* another thread is at a statement on the cursor that t is about to use
overlaps(t) ==
    /\ cursor_of(threads[t].pc) # "none"
    /\ \E u \in Threads \ {t} : cursor_of(threads[u].pc) = cursor_of(threads[t].pc)

RECURSIVE served_total(_)
served_total(S) ==
    IF S = {} THEN 0
    ELSE LET t == CHOOSE t \in S : TRUE IN threads[t].served + served_total(S \ {t})

\* the rows of a chat as a SELECT on chat_messages yields them
tagged_rows(table, user_id, chat_id) ==
    [i \in 1..Len(chat_rows(table, user_id, chat_id)) |->
        [user_id |-> user_id, chat_id |-> chat_id,
         role |-> chat_rows(table, user_id, chat_id)[i].role,
         content |-> chat_rows(table, user_id, chat_id)[i].content]]

\* the orders in which a SELECT can yield a set of rows
row_seqs(R) ==
    {f \in [1..Cardinality(R) -> R] : \A i, j \in 1..Cardinality(R) : f[i] = f[j] => i = j}

\* shutil.rmtree(./f5_store/user_id/chat_id)
rmtree(store, user_id, chat_id) ==
    [d \in {x \in DOMAIN store : ~(x[2] = user_id /\ x[3] = chat_id)} |-> store[d]]

\* the request of t ends with an exception: HTTP 500
fails(t, raised) ==
    [threads EXCEPT ![t] =
        [@ EXCEPT !.pc = "done", !.status = 500, !.raised = raised, !.at = threads[t].pc]]

set_cursor(c, rows) == [cursors EXCEPT ![c] = rows]

\* the tables before any request
ColdTables == [indexed_videos |-> {}, f5_store |-> <<>>, chat_messages |-> <<>>, uuid_next |-> 0]

\* the tables after one /video_rag request of u1 for the chat was served
\* alone: ingest_video, save_index and the two save_message calls
served_once(chat_id) ==
    LET r == ingest_video(UrlShortA, "u1", chat_id, 0, TRUE, TRUE)
    IN  [indexed_videos |-> save_index({}, "u1", chat_id, UrlShortA, r.faiss_dir[1]),
         f5_store |-> [d \in {r.faiss_dir[1]} |-> r.docs[1]],
         chat_messages |-> save_message(save_message(<<>>, "u1", chat_id, "human", QueryPlain),
                                        "u1", chat_id, "ai", LlmAnswer),
         uuid_next |-> 1]

\* the server starts serving concurrently on fresh tables or after one
\* request for chat c2
InitConcurrent ==
    /\ \E tables \in {ColdTables, served_once("c2")} :
         /\ indexed_videos = tables.indexed_videos
         /\ f5_store = tables.f5_store
         /\ chat_messages = tables.chat_messages
         /\ uuid_next = tables.uuid_next
    /\ resp = [op |-> "none"]
    /\ runs = <<>>
    /\ probe = NoProbe
    /\ threads = [t \in Threads |-> IdleThread]
    /\ cursors = [meta |-> <<>>, history |-> <<>>]

\* a thread of the pool takes a /video_rag request; ingest_node derives
\* the video id
StartVideoRag(t) ==
    /\ threads[t].pc \in {"idle", "done"}
    /\ served_total(Threads) < MaxRequests
    /\ \E chat_id \in RaceChats :
         threads' = [threads EXCEPT ![t] =
            [IdleThread EXCEPT !.pc = "get_index_execute", !.op = "video_rag",
                               !.user_id = "u1", !.chat_id = chat_id,
                               !.youtube_url = UrlShortA, !.message = QueryPlain,
                               !.served = threads[t].served + 1]]
    /\ UNCHANGED <<indexed_videos, f5_store, chat_messages, uuid_next, resp, runs, probe, cursors>>

\* get_index: cursor.execute("SELECT faiss_dir ...")
GetIndexExecute(t) ==
    /\ threads[t].pc = "get_index_execute"
    /\ \E rows \in row_seqs(index_rows(indexed_videos, threads[t].user_id,
                                       threads[t].chat_id, threads[t].youtube_url)) :
         cursors' = set_cursor("meta", rows)
    /\ threads' = [threads EXCEPT ![t].pc = "get_index_fetchone"]
    /\ UNCHANGED <<indexed_videos, f5_store, chat_messages, uuid_next, resp, runs, probe>>

\* get_index: row = cursor.fetchone(); ingest_node: if not faiss_dir
GetIndexFetchone(t) ==
    /\ threads[t].pc = "get_index_fetchone"
    /\ LET row == IF cursors.meta = <<>> THEN None ELSE Some(Head(cursors.meta).faiss_dir)
       IN  threads' = [threads EXCEPT ![t] =
              [@ EXCEPT !.lookup = row, !.faiss_dir = row,
                        !.pc = IF row = None THEN "ingest_video" ELSE "load_faiss"]]
    /\ cursors' = set_cursor("meta", IF cursors.meta = <<>> THEN <<>> ELSE Tail(cursors.meta))
    /\ UNCHANGED <<indexed_videos, f5_store, chat_messages, uuid_next, resp, runs, probe>>

\* ingest_node: faiss_dir = ingest_video(...)
IngestVideo(t) ==
    /\ threads[t].pc = "ingest_video"
    /\ \E r \in {ingest_video(threads[t].youtube_url, threads[t].user_id, threads[t].chat_id,
                               uuid_next, TRUE, TRUE)} :
         IF r.raised # ""
         THEN /\ threads' = fails(t, r.raised)
              /\ UNCHANGED <<f5_store, uuid_next>>
         ELSE /\ f5_store' = [d \in DOMAIN f5_store \cup {r.faiss_dir[1]} |->
                                 IF d = r.faiss_dir[1] THEN r.docs[1] ELSE f5_store[d]]
              /\ uuid_next' = uuid_next + 1
              /\ threads' = [threads EXCEPT ![t] =
                    [@ EXCEPT !.pc = "save_index", !.faiss_dir = r.faiss_dir,
                              !.built_dir = r.faiss_dir, !.builds = 1,
                              !.build_overlap =
                                  \E u \in Threads \ {t} :
                                     /\ threads[u].op = "video_rag"
                                     /\ threads[u].chat_id = threads[t].chat_id
                                     /\ threads[u].youtube_url = threads[t].youtube_url
                                     /\ threads[u].pc \in {"ingest_video", "save_index"}]]
    /\ UNCHANGED <<indexed_videos, chat_messages, resp, runs, probe, cursors>>

\* ingest_node: save_index(...)
SaveIndex(t) ==
    /\ threads[t].pc = "save_index"
    /\ indexed_videos' = save_index(indexed_videos, threads[t].user_id, threads[t].chat_id,
                                    threads[t].youtube_url, threads[t].faiss_dir[1])
    /\ cursors' = set_cursor("meta", <<>>)
    /\ threads' = [threads EXCEPT ![t] =
          [@ EXCEPT !.pc = "load_faiss",
                    !.overwrote = get_index(indexed_videos, threads[t].user_id,
                                            threads[t].chat_id, threads[t].youtube_url)]]
    /\ UNCHANGED <<f5_store, chat_messages, uuid_next, resp, runs, probe>>

\* rag_node up to the check of the context: load_faiss, retrieval and the
\* two context blocks
LoadFaiss(t) ==
    /\ threads[t].pc = "load_faiss"
    /\ IF load_faiss(f5_store, threads[t].faiss_dir[1]) = None
       THEN threads' = fails(t, "RuntimeError")
       ELSE \E rag \in {rag_node(<<>>, load_faiss(f5_store, threads[t].faiss_dir[1])[1],
                                  extract_video_id(threads[t].youtube_url)[1],
                                  threads[t].user_id, threads[t].chat_id,
                                  threads[t].message, TRUE, TRUE)} :
              threads' = [threads EXCEPT ![t] =
                 [@ EXCEPT !.answer = rag.answer,
                           !.pc = IF rag.llm_calls = 0 THEN "full_history_execute"
                                  ELSE "load_history_execute"]]
    /\ UNCHANGED <<indexed_videos, f5_store, chat_messages, uuid_next, resp, runs, probe, cursors>>

\* load_history: cursor.execute("SELECT role, content ... LIMIT ?")
LoadHistoryExecute(t) ==
    /\ threads[t].pc = "load_history_execute"
    /\ cursors' = set_cursor("history", Take(tagged_rows(chat_messages, threads[t].user_id,
                                                         threads[t].chat_id), history_limit))
    /\ threads' = [threads EXCEPT ![t].pc = "load_history_fetchall"]
    /\ UNCHANGED <<indexed_videos, f5_store, chat_messages, uuid_next, resp, runs, probe>>

\* load_history: cursor.fetchall(); then llm.invoke(messages)
LoadHistoryFetchall(t) ==
    /\ threads[t].pc = "load_history_fetchall"
    /\ threads' = [threads EXCEPT ![t] =
          [@ EXCEPT !.pc = "save_human", !.llm_history = cursors.history]]
    /\ cursors' = set_cursor("history", <<>>)
    /\ UNCHANGED <<indexed_videos, f5_store, chat_messages, uuid_next, resp, runs, probe>>

\* save_message(user_id, chat_id, "human", message)
SaveHuman(t) ==
    /\ threads[t].pc = "save_human"
    /\ chat_messages' = save_message(chat_messages, threads[t].user_id, threads[t].chat_id,
                                     "human", threads[t].message)
    /\ cursors' = set_cursor("history", <<>>)
    /\ threads' = [threads EXCEPT ![t].pc = "save_ai"]
    /\ UNCHANGED <<indexed_videos, f5_store, uuid_next, resp, runs, probe>>

\* save_message(user_id, chat_id, "ai", answer)
SaveAi(t) ==
    /\ threads[t].pc = "save_ai"
    /\ chat_messages' = save_message(chat_messages, threads[t].user_id, threads[t].chat_id,
                                     "ai", LlmAnswer)
    /\ cursors' = set_cursor("history", <<>>)
    /\ threads' = [threads EXCEPT ![t].pc = "full_history_execute"]
    /\ UNCHANGED <<indexed_videos, f5_store, uuid_next, resp, runs, probe>>

\* video_rag: f5_load_full_history: cursor.execute("SELECT role, content ...")
FullHistoryExecute(t) ==
    /\ threads[t].pc = "full_history_execute"
    /\ cursors' = set_cursor("history", tagged_rows(chat_messages, threads[t].user_id,
                                                    threads[t].chat_id))
    /\ threads' = [threads EXCEPT ![t].pc = "full_history_fetchall"]
    /\ UNCHANGED <<indexed_videos, f5_store, chat_messages, uuid_next, resp, runs, probe>>

\* video_rag: cursor.fetchall() and the response
FullHistoryFetchall(t) ==
    /\ threads[t].pc = "full_history_fetchall"
    /\ threads' = [threads EXCEPT ![t] =
          [@ EXCEPT !.pc = "done", !.status = 200, !.messages = cursors.history]]
    /\ cursors' = set_cursor("history", <<>>)
    /\ UNCHANGED <<indexed_videos, f5_store, chat_messages, uuid_next, resp, runs, probe>>

\* a statement on a cursor that another thread is using raises
Raced(t) ==
    /\ overlaps(t)
    /\ threads' = fails(t, "ProgrammingError")
    /\ UNCHANGED <<indexed_videos, f5_store, chat_messages, uuid_next, resp, runs, probe, cursors>>

\* a thread of the pool takes a /feature5_delete_chat request
StartDeleteChat(t) ==
    /\ threads[t].pc \in {"idle", "done"}
    /\ served_total(Threads) < MaxRequests
    /\ \E chat_id \in RaceChats :
         threads' = [threads EXCEPT ![t] =
            [IdleThread EXCEPT !.pc = "chat_exists_execute", !.op = "delete",
                               !.user_id = "u1", !.chat_id = chat_id,
                               !.served = threads[t].served + 1]]
    /\ UNCHANGED <<indexed_videos, f5_store, chat_messages, uuid_next, resp, runs, probe, cursors>>

\* chat_exists: cursor.execute("SELECT 1 ... LIMIT 1")
ChatExistsExecute(t) ==
    /\ threads[t].pc = "chat_exists_execute"
    /\ cursors' = set_cursor("history", Take(tagged_rows(chat_messages, threads[t].user_id,
                                                         threads[t].chat_id), 1))
    /\ threads' = [threads EXCEPT ![t].pc = "chat_exists_fetchone"]
    /\ UNCHANGED <<indexed_videos, f5_store, chat_messages, uuid_next, resp, runs, probe>>

\* chat_exists: cursor.fetchone() is not None; 404 when it is None
ChatExistsFetchone(t) ==
    /\ threads[t].pc = "chat_exists_fetchone"
    /\ threads' = [threads EXCEPT ![t] =
          IF cursors.history = <<>>
          THEN [@ EXCEPT !.pc = "done", !.status = 404]
          ELSE [@ EXCEPT !.pc = "delete_chat"]]
    /\ cursors' = set_cursor("history",
                             IF cursors.history = <<>> THEN <<>> ELSE Tail(cursors.history))
    /\ UNCHANGED <<indexed_videos, f5_store, chat_messages, uuid_next, resp, runs, probe>>

\* f5_delete_chat(user_id, chat_id)
DeleteChat(t) ==
    /\ threads[t].pc = "delete_chat"
    /\ chat_messages' = delete_chat(chat_messages, threads[t].user_id, threads[t].chat_id)
    /\ cursors' = set_cursor("history", <<>>)
    /\ threads' = [threads EXCEPT ![t].pc = "delete_chat_index"]
    /\ UNCHANGED <<indexed_videos, f5_store, uuid_next, resp, runs, probe>>

\* delete_chat_index(user_id, chat_id)
DeleteChatIndex(t) ==
    /\ threads[t].pc = "delete_chat_index"
    /\ indexed_videos' = delete_chat_index(indexed_videos, threads[t].user_id,
                                           threads[t].chat_id)
    /\ cursors' = set_cursor("meta", <<>>)
    /\ threads' = [threads EXCEPT ![t].pc = "rmtree"]
    /\ UNCHANGED <<f5_store, chat_messages, uuid_next, resp, runs, probe>>

\* shutil.rmtree(chat_dir) and the response
Rmtree(t) ==
    /\ threads[t].pc = "rmtree"
    /\ f5_store' = rmtree(f5_store, threads[t].user_id, threads[t].chat_id)
    /\ threads' = [threads EXCEPT ![t] = [@ EXCEPT !.pc = "done", !.status = 200]]
    /\ UNCHANGED <<indexed_videos, chat_messages, uuid_next, resp, runs, probe, cursors>>

VideoRagStep(t) ==
    \/ StartVideoRag(t) \/ GetIndexExecute(t) \/ GetIndexFetchone(t) \/ IngestVideo(t)
    \/ SaveIndex(t) \/ LoadFaiss(t) \/ LoadHistoryExecute(t) \/ LoadHistoryFetchall(t)
    \/ SaveHuman(t) \/ SaveAi(t) \/ FullHistoryExecute(t) \/ FullHistoryFetchall(t)
    \/ Raced(t)

DeleteChatStep(t) ==
    \/ StartDeleteChat(t) \/ ChatExistsExecute(t) \/ ChatExistsFetchone(t)
    \/ DeleteChat(t) \/ DeleteChatIndex(t) \/ Rmtree(t)

\* concurrent /video_rag requests
NextRace == \E t \in Threads : VideoRagStep(t)

SpecRace == InitConcurrent /\ [][NextRace]_vars

\* concurrent /video_rag and /feature5_delete_chat requests
NextConcurrent == \E t \in Threads : VideoRagStep(t) \/ DeleteChatStep(t)

SpecConcurrent == InitConcurrent /\ [][NextConcurrent]_vars

----------------------------------------------------------------------------
(* Properties of retrieve_with_priority *)

NumSpeech(docs) == Len(SelectSeq(docs, IsSpeech))

NumVisual(docs) == Len(SelectSeq(docs, IsVisual))

\* what the similarity search hands to the rebalancing step of the probed call
Candidates == similarity_search(probe.index, probe.k * 2)

Retrieved == probe.fn = "retrieve" /\ probe.called

\* C2 as stated: an index holding at least k documents of each source, in
\* any similarity order, gives exactly 7 SPEECH and 3 VISUAL for k = 10.
C2_IndexAbundance ==
    (Retrieved /\ probe.k = 10
       /\ NumSpeech(probe.index) >= probe.k /\ NumVisual(probe.index) >= probe.k)
    => (NumSpeech(probe.docs) = 7 /\ NumVisual(probe.docs) = 3)

\* C2 amended: when the 2k candidates returned by the similarity search hold
\* at least 7 SPEECH and at least 3 VISUAL documents (so also when they hold
\* at least k of each), k = 10 gives exactly 7 SPEECH and 3 VISUAL.
C2_CandidateAbundance ==
    (Retrieved /\ probe.k = 10
       /\ NumSpeech(Candidates) >= 7 /\ NumVisual(Candidates) >= 3)
    => (NumSpeech(probe.docs) = 7 /\ NumVisual(probe.docs) = 3)

C2_Witness ==
    /\ Retrieved /\ probe.k = 10
    /\ Len(probe.index) > 20
    /\ NumSpeech(Candidates) = 10 /\ NumVisual(Candidates) = 10
    /\ NumSpeech(probe.docs) = 7

\* C3: with exactly 2 SPEECH candidates and at least 8 VISUAL candidates,
\* k = 10 gives exactly 2 SPEECH and 8 VISUAL documents.
C3_Scarcity ==
    (Retrieved /\ probe.k = 10
       /\ NumSpeech(Candidates) = 2 /\ NumVisual(Candidates) >= 8)
    => (NumSpeech(probe.docs) = 2 /\ NumVisual(probe.docs) = 8)

C3_Witness ==
    /\ Retrieved /\ probe.k = 10
    /\ NumSpeech(Candidates) = 2 /\ NumVisual(Candidates) >= 8
    /\ NumVisual(probe.docs) = 8

\* C4: at most k documents are returned; fewer than k candidates are all
\* returned; every returned entry is a candidate and none is returned twice.
C4_AtMostK ==
    Retrieved =>
      /\ Len(probe.docs) <= probe.k
      /\ Range(probe.docs) \subseteq Range(Candidates)
      /\ Cardinality(Range(probe.docs)) = Len(probe.docs)
      /\ (Len(Candidates) < probe.k => Range(probe.docs) = Range(Candidates))

C4_Witness ==
    /\ Retrieved
    /\ Len(Candidates) < probe.k
    /\ NumSpeech(Candidates) > 0 /\ NumVisual(Candidates) > transcript_quota(probe.k)
    /\ Len(probe.docs) = Len(Candidates)

\* C5: in the returned list no VISUAL document precedes a SPEECH document,
\* and two documents of the same source appear in their similarity order.
C5_SpeechFirstInOrder ==
    Retrieved =>
      \A i \in 1..Len(probe.docs), j \in 1..Len(probe.docs) :
         i < j =>
           /\ ~(IsVisual(probe.docs[i]) /\ IsSpeech(probe.docs[j]))
           /\ (probe.docs[i].source = probe.docs[j].source
                 => probe.docs[i].rank < probe.docs[j].rank)

C5_Witness ==
    /\ Retrieved
    /\ NumSpeech(probe.docs) >= 2 /\ NumVisual(probe.docs) >= 2
    /\ \E i \in 1..Len(probe.docs), j \in 1..Len(probe.docs) :
         /\ IsSpeech(probe.docs[i]) /\ IsVisual(probe.docs[j])
         /\ probe.docs[j].rank < probe.docs[i].rank

----------------------------------------------------------------------------
(* Properties of extract_timestamp *)

\* the forms of the claim in its priority order: "at MM:SS", "on MM:SS",
\* "@ MM:SS", bare "MM:SS"; least and most whitespace after the literal
\* (most = -1: any amount)
C6_Forms ==
    << [lit |-> <<"a", "t">>, least |-> 1, most |-> -1],
       [lit |-> <<"o", "n">>, least |-> 1, most |-> -1],
       [lit |-> <<"@">>,      least |-> 0, most |-> -1],
       [lit |-> <<>>,         least |-> 0, most |-> 0] >>

\* minutes*60+seconds of every occurrence of a form anywhere in s: the
\* literal at i, w whitespace characters, nd minute digits, ":", two digits
C6_Values(f, s) ==
    LET n == Len(s)
        k == Len(f.lit)
        at == {i \in 1..(n - k + 1) : SubSeq(s, i, i + k - 1) = f.lit}
        gaps(i) == {w \in f.least..(IF f.most >= 0 THEN f.most ELSE n) :
                      /\ i + k + w <= n
                      /\ \A x \in (i + k)..(i + k + w - 1) : IsSpace(s[x])}
        widths(d) == {nd \in {1, 2} :
                        /\ d + nd + 2 <= n
                        /\ \A x \in d..(d + nd - 1) : IsDigit(s[x])
                        /\ s[d + nd] = ":"
                        /\ IsDigit(s[d + nd + 1]) /\ IsDigit(s[d + nd + 2])}
        value(d, nd) == int(SubSeq(s, d, d + nd - 1)) * 60
                          + int(SubSeq(s, d + nd + 1, d + nd + 2))
    IN  UNION { UNION { {value(i + k + w, nd) : nd \in widths(i + k + w)} : w \in gaps(i) } :
                i \in at }

TimestampCalled == probe.fn = "extract_timestamp" /\ probe.called

\* C6: the result is absent exactly when no form occurs in the message;
\* otherwise it is minutes*60+seconds of an occurrence of the first form, in
\* priority order, that occurs; and the five example queries give 125, 191,
\* 121, absent and 60.
C6_TimestampPriority ==
    TimestampCalled =>
      LET s == probe.message
          occurring == {n \in 1..Len(C6_Forms) : C6_Values(C6_Forms[n], s) # {}}
      IN  /\ (probe.timestamp = None) <=> (occurring = {})
          /\ occurring # {} =>
               LET n == CHOOSE n \in occurring : \A h \in occurring : n <= h
               IN  probe.timestamp[1] \in C6_Values(C6_Forms[n], s)
          /\ s = QueryHappensAt => probe.timestamp = Some(125)
          /\ s = QueryOn => probe.timestamp = Some(191)
          /\ s = QueryBare => probe.timestamp = Some(121)
          /\ s = QueryNoTime => probe.timestamp = None
          /\ s = QueryAtThenOn => probe.timestamp = Some(60)

C6_Witness ==
    /\ TimestampCalled
    /\ probe.message = QueryAtThenOn
    /\ probe.timestamp = Some(60)
    /\ C6_Values(C6_Forms[2], probe.message) = {120}

----------------------------------------------------------------------------
(* Properties of get_transcript_context *)

WindowCalled ==
    probe.fn = "get_transcript_context" /\ probe.called /\ probe.timestamp # None

\* the claim's rule: start or end lies in the closed interval [T-W, T+W]
C7_Included(t, T, W) ==
    \/ t.start \in Sec(T - W)..Sec(T + W)
    \/ t.end \in Sec(T - W)..Sec(T + W)

C7_Line(t) == speech_line(t.start, t.text)

\* C7: for a timestamp T and a window W the context consists of the lines of
\* exactly the entries whose start or end lies in [T-W, T+W]; with T = 100
\* and W = 45 an entry 144..150 is included and one starting at 146 is not.
C7_WindowInclusion ==
    WindowCalled =>
      LET T == probe.timestamp[1]
          W == probe.window
          tr == probe.transcript
          kept == SelectSeq(tr, LAMBDA t : C7_Included(t, T, W))
      IN  /\ probe.context = join_lines([i \in 1..Len(kept) |-> C7_Line(kept[i])])
          /\ (T = 100 /\ W = 45) =>
               \A i \in 1..Len(tr) :
                  /\ (tr[i].start = Sec(144) /\ tr[i].end = Sec(150))
                       => \E a \in 0..Len(probe.context), b \in 0..Len(probe.context) :
                             SubSeq(probe.context, a + 1, b) = C7_Line(tr[i])
                  /\ (Len(tr) = 1 /\ tr[i].start = Sec(146)) => probe.context = <<>>

C7_Witness ==
    /\ WindowCalled
    /\ probe.timestamp = Some(100) /\ probe.window = 45
    /\ Len(probe.transcript) = 2
    /\ probe.transcript[1].start = Sec(146)
    /\ probe.transcript[2].start = Sec(144) /\ probe.transcript[2].end = Sec(150)
    /\ probe.context = C7_Line(probe.transcript[2])

----------------------------------------------------------------------------
(* Properties of the noise filter of ingest_video *)

FramesCalled == probe.fn = "collect_docs" /\ probe.called

\* number of characters left when the whitespace at both ends is removed
C10_StrippedLength(text) ==
    LET inner == {i \in 1..Len(text) : ~IsSpace(text[i])}
    IN  IF inner = {} THEN 0
        ELSE (CHOOSE i \in inner : \A h \in inner : h <= i)
               - (CHOOSE i \in inner : \A h \in inner : i <= h) + 1

\* C10: the VISUAL snippets are, in order, those of the sampled frames whose
\* recognized text has stripped length >= 11; a sampled frame with stripped
\* length <= 10 gives none.
C10_NoiseFilter ==
    FramesCalled =>
      LET long == SelectSeq(probe.sampled, LAMBDA f : C10_StrippedLength(f.text) >= 11)
          visual == SelectSeq(probe.docs, IsVisual)
      IN  /\ Len(visual) = Len(long)
          /\ \A i \in 1..Len(long) :
                /\ visual[i].page_content = long[i].text
                /\ visual[i].start
                     = Sec(sample_every_sec) * (long[i].frame_count \div frame_interval(probe.stream))
          /\ \A i \in 1..Len(visual) : C10_StrippedLength(visual[i].page_content) > 10

C10_Witness ==
    /\ FramesCalled
    /\ Len(probe.sampled) = 3
    /\ Len(probe.sampled[1].text) = 12 /\ C10_StrippedLength(probe.sampled[1].text) = 10
    /\ C10_StrippedLength(probe.sampled[2].text) = 11
    /\ C10_StrippedLength(probe.sampled[3].text) = 9 /\ Len(probe.sampled[3].text) = 11
    /\ Len(probe.docs) = 1

----------------------------------------------------------------------------
(* Properties of the /video_rag endpoint *)

\* C1: of two runs of ingest_node for one key that follow each other with no
\* deletion of the chat in between and that both return, both yield the same
\* faiss_dir and at most one of them calls ingest_video; a run that follows
\* a run that returned also returns, from the cache.
C1_IdempotentIngestion ==
    \A key \in Keys :
       (Len(runs[key]) = 2 /\ runs[key][1].raised = "") =>
         /\ runs[key][2].raised = ""
         /\ runs[key][1].faiss_dir = runs[key][2].faiss_dir
         /\ runs[key][1].builds + runs[key][2].builds <= 1

C1_Witness ==
    \E key \in Keys :
       /\ Len(runs[key]) = 2
       /\ runs[key][1].raised = "" /\ runs[key][1].builds = 1
       /\ runs[key][2].raised = "" /\ runs[key][2].builds = 0
       /\ runs[key][2].faiss_dir # None
       /\ resp.op = "video_rag" /\ resp.key = key /\ resp.faiss_dir = runs[key][1].faiss_dir

\* a request that came to the check of the two context blocks of rag_node
C8_ContextChecked == resp.op = "video_rag" /\ resp.node = "rag"

\* C8: a request whose speech block and visual block are both empty returns
\* the fixed fallback answer with no timestamps, and makes no LLM call.
C8_NoContextShortCircuit ==
    (C8_ContextChecked /\ resp.transcript_context = <<>> /\ resp.ocr_context = <<>>)
    => /\ resp.status = 200
       /\ resp.answer = Some(FallbackAnswer)
       /\ resp.timestamps = <<>>
       /\ resp.llm_calls = 0

C8_Witness ==
    /\ C8_ContextChecked
    /\ resp.transcript_context = <<>> /\ resp.ocr_context = <<>>
    /\ resp.message = QueryAt010
    /\ resp.answer = Some(FallbackAnswer)

\* C9: when ingestion produces zero snippets the build does not raise and a
\* handle is returned, and the request ends in the no-context answer.
C9_EmptyIndexSafety ==
    (resp.op = "video_rag" /\ resp.builds = 1 /\ resp.built_docs = Some(<<>>))
    => /\ resp.raised = ""
       /\ resp.faiss_dir # None
       /\ resp.answer = Some(FallbackAnswer)

----------------------------------------------------------------------------
(* Properties of the context composed by rag_node *)

ComposeCalled == probe.fn = "rag_node" /\ probe.called

\* the lines of a block
RECURSIVE C11_Lines(_)
C11_Lines(block) ==
    LET nl == {i \in 1..Len(block) : block[i] = "\n"}
    IN  IF block = <<>> THEN <<>>
        ELSE IF nl = {} THEN <<block>>
        ELSE LET i == CHOOSE i \in nl : \A h \in nl : i <= h
             IN  <<SubSeq(block, 1, i - 1)>> \o C11_Lines(SubSeq(block, i + 1, Len(block)))

\* "[M:SS": minutes = floor(start) div 60, seconds = floor(start) mod 60 in
\* two digits, for a start in half seconds of less than 100 minutes
C11_Marker(start) ==
    LET whole == start \div 2
        m == whole \div 60
        sec == whole % 60
    IN  <<"[">>
          \o (IF m < 10 THEN <<>> ELSE <<Digits[(m \div 10) + 1]>>) \o <<Digits[(m % 10) + 1]>>
          \o <<":", Digits[(sec \div 10) + 1], Digits[(sec % 10) + 1]>>

\* the snippets a line of the speech block can come from: the speech
\* documents of the index and the entries of the video's transcript
C11_SpeechSnippets ==
    {[start |-> d.start, text |-> d.page_content] : d \in {x \in Range(probe.index) : IsSpeech(x)}}
      \cup {[start |-> t.start, text |-> t.text] : t \in Range(VideoTranscript(probe.video_id))}

C11_VisualSnippets ==
    {[start |-> d.start, text |-> d.page_content] : d \in {x \in Range(probe.index) : IsVisual(x)}}

\* block occurs in context at position i
C11_OccursAt(block, context, i) ==
    /\ i + Len(block) - 1 <= Len(context)
    /\ SubSeq(context, i, i + Len(block) - 1) = block

\* C11: every line of the speech block and of the screen block is the
\* marker of its snippet's start, the block's label and the snippet's text;
\* in the context given to the LLM the speech block comes before the screen
\* block; and for a speech line and a screen line at 10 s and the question
\* "what's the formula at 0:10?" the context holds both, speech first, each
\* marked 0:10.
C11_SpeechBeforeVisual ==
    ComposeCalled =>
      LET tc == probe.transcript_context
          oc == probe.ocr_context
          ctx == probe.llm_context
      IN  /\ \A line \in Range(C11_Lines(tc)) :
                \E sn \in C11_SpeechSnippets :
                   line = C11_Marker(sn.start) \o SpeechLabel \o sn.text
          /\ \A line \in Range(C11_Lines(oc)) :
                \E sn \in C11_VisualSnippets :
                   line = C11_Marker(sn.start) \o ScreenLabel \o sn.text
          /\ (probe.llm_calls = 1 /\ tc # <<>>) => \E i \in 1..Len(ctx) : C11_OccursAt(tc, ctx, i)
          /\ (probe.llm_calls = 1 /\ oc # <<>>) => \E j \in 1..Len(ctx) : C11_OccursAt(oc, ctx, j)
          /\ (probe.llm_calls = 1 /\ tc # <<>> /\ oc # <<>>) =>
               \A i \in 1..Len(ctx), j \in 1..Len(ctx) :
                  (C11_OccursAt(tc, ctx, i) /\ C11_OccursAt(oc, ctx, j)) => i + Len(tc) <= j
          /\ ( /\ probe.message = QueryFormula /\ probe.video_id = <<"A">>
               /\ Len(probe.index) = 2
               /\ \A d \in Range(probe.index) : d.start = Sec(10)
               /\ \E d \in Range(probe.index) : IsSpeech(d)
               /\ \E d \in Range(probe.index) : IsVisual(d) )
             => /\ tc = <<"[", "0", ":", "1", "0">> \o SpeechLabel \o SpeechText
                /\ oc = <<"[", "0", ":", "1", "0">> \o ScreenLabel \o FormulaText
                /\ probe.llm_calls = 1

C11_Witness ==
    /\ ComposeCalled
    /\ probe.message = QueryFormula /\ probe.video_id = <<"A">>
    /\ Len(probe.index) = 2
    /\ IsVisual(probe.index[1]) /\ probe.index[1].start = Sec(10)
    /\ IsSpeech(probe.index[2]) /\ probe.index[2].start = Sec(10)
    /\ probe.llm_calls = 1
    /\ \E i \in 1..Len(probe.llm_context), j \in 1..Len(probe.llm_context) :
          /\ i < j
          /\ C11_OccursAt(probe.transcript_context, probe.llm_context, i)
          /\ C11_OccursAt(probe.ocr_context, probe.llm_context, j)

\* [start, end] and [T-W, T+W] have a point in common
C19_Overlaps(t, T, W) == t.start <= Sec(T + W) /\ t.end >= Sec(T - W)

\* the entry begins before the window and ends after it
C19_Spans(t, T, W) == t.start < Sec(T - W) /\ t.end > Sec(T + W)

C19_LinesOf(entries) == join_lines([i \in 1..Len(entries) |-> C7_Line(entries[i])])

\* C19 as stated: every entry whose interval overlaps [T-W, T+W] is in the
\* context, also one that begins before T-W and ends after T+W.
C19_AnyOverlapCounts ==
    WindowCalled =>
       probe.context =
          C19_LinesOf(SelectSeq(probe.transcript,
                                LAMBDA t : C19_Overlaps(t, probe.timestamp[1], probe.window)))

\* C19 amended: of the entries whose interval overlaps [T-W, T+W], the
\* context holds all but those that begin before T-W and end after T+W; an
\* entry that covers the whole window is left out.
C19_OverlapExceptSpanning ==
    WindowCalled =>
       LET T == probe.timestamp[1]
           W == probe.window
       IN  /\ probe.context =
                C19_LinesOf(SelectSeq(probe.transcript,
                                      LAMBDA t : C19_Overlaps(t, T, W) /\ ~C19_Spans(t, T, W)))
           /\ (\A i \in 1..Len(probe.transcript) : C19_Spans(probe.transcript[i], T, W))
                 => probe.context = <<>>

\* an entry covering the whole window is left out and one starting in the
\* window is kept
C19_Witness ==
    /\ WindowCalled
    /\ probe.timestamp = Some(100) /\ probe.window = 45
    /\ Len(probe.transcript) = 2
    /\ C19_Spans(probe.transcript[1], 100, 45)
    /\ probe.transcript[2].start = Sec(100)
    /\ probe.context = C7_Line(probe.transcript[2])

\* the documented procedure: the quotas, then the speech shortfall added to
\* the screen quota and the screen shortfall added to the speech quota
C20_Reference(ranked, k) ==
    LET all_docs == Take(ranked, 2 * k)
        speech == SelectSeq(all_docs, IsSpeech)
        visual == SelectSeq(all_docs, IsVisual)
        speech_quota == (7 * k) \div 10
        visual_quota == k - speech_quota
        speech_short == IF Len(speech) < speech_quota THEN speech_quota - Len(speech) ELSE 0
        visual_short == IF Len(visual) < visual_quota THEN visual_quota - Len(visual) ELSE 0
    IN  Take(speech, speech_quota + visual_short) \o Take(visual, visual_quota + speech_short)

\* C20: for every k and every pair of bucket sizes retrieve_with_priority
\* selects the documents of the documented procedure with
\* speech_quota = floor(0.7 * k).
C20_MatchesReference ==
    (probe.fn = "quota" /\ probe.called) => probe.docs = C20_Reference(probe.index, probe.k)

----------------------------------------------------------------------------
(* Properties of the index cache under concurrent requests *)

\* C12: after any interleaving of ingests, queries and chat deletions the
\* cache holds at most one index handle for a (user, chat, video URL) key.
C12_OneHandlePerKey ==
    \A r \in indexed_videos :
       Cardinality(index_rows(indexed_videos, r.user_id, r.chat_id, r.youtube_url)) = 1

\* two requests built an index for the same key, the second save_index
\* found the mapping of the first, and one mapping is left
C12_Witness ==
    \E t, u \in Threads :
       /\ t # u
       /\ threads[t].builds = 1 /\ threads[u].builds = 1
       /\ threads[t].chat_id = threads[u].chat_id
       /\ threads[t].built_dir # threads[u].built_dir
       /\ threads[u].overwrote = threads[t].built_dir
       /\ threads[u].pc = "done" /\ threads[t].pc = "done"
       /\ Cardinality(index_rows(indexed_videos, "u1", threads[t].chat_id, UrlShortA)) = 1

\* t and u are served at the same time for one key, both miss the cache
\* and both build an index
C13_BothBuilt(t, u) ==
    /\ t # u
    /\ threads[t].op = "video_rag" /\ threads[u].op = "video_rag"
    /\ threads[t].chat_id = threads[u].chat_id
    /\ threads[t].youtube_url = threads[u].youtube_url
    /\ threads[t].builds = 1 /\ threads[u].builds = 1
    /\ threads[u].build_overlap

\* C13: when two requests for one key both miss the cache and both build an
\* index, neither request fails at a statement on the cache, each uses the
\* index it built, and once both have written the cache holds one mapping
\* for the key, the handle written last.
C13_RaceHarmless ==
    \A t, u \in Threads :
       C13_BothBuilt(t, u) =>
          /\ \A w \in {t, u} :
                /\ ~(threads[w].raised # "" /\ threads[w].at \in MetaOps)
                /\ threads[w].faiss_dir = threads[w].built_dir
          /\ (threads[t].pc \notin MetaOps /\ threads[u].pc \notin MetaOps) =>
                \E w \in {t, u} :
                   /\ threads[w].overwrote = threads[CHOOSE x \in {t, u} : x # w].built_dir
                   /\ index_rows(indexed_videos, threads[w].user_id, threads[w].chat_id,
                                 threads[w].youtube_url)
                        = {[user_id |-> threads[w].user_id, chat_id |-> threads[w].chat_id,
                            youtube_url |-> threads[w].youtube_url,
                            faiss_dir |-> threads[w].built_dir[1]]}

\* C14: a request never reads what belongs to another chat: the handle its
\* cache lookup returns is an index of its own chat, and the history it
\* gives to the LLM and the messages it returns are rows of its own chat.
C14_ChatsIsolated ==
    \A t \in Threads :
       threads[t].op = "video_rag" =>
          /\ threads[t].lookup # None => threads[t].lookup[1][3] = threads[t].chat_id
          /\ \A m \in Range(threads[t].llm_history) : m.chat_id = threads[t].chat_id
          /\ \A m \in Range(threads[t].messages) : m.chat_id = threads[t].chat_id

----------------------------------------------------------------------------
(* Properties of failure handling *)

\* C15: when the transcript cannot be obtained, an ingestion still samples
\* the frames, builds the index from the screen documents alone and returns
\* a handle.
C15_TranscriptFailsSoft ==
    (resp.op = "video_rag" /\ resp.fault = "transcript" /\ resp.builds = 1) =>
       /\ resp.built_docs # None
       /\ \A d \in Range(resp.built_docs[1]) : IsVisual(d)
       /\ resp.faiss_dir # None
       /\ ~(resp.node = "ingest" /\ resp.raised # "")

\* C16: a request whose video stream cannot be opened ends with the
\* RuntimeError of ingest_video as HTTP 500, creates no index and saves no
\* cache entry for the key; the next request for the key runs ingest_video
\* again.
C16_StreamFailurePropagates ==
    [][ /\ (resp'.op = "video_rag" /\ resp'.fault = "stream") =>
             /\ resp'.status = 500
             /\ resp'.raised = "RuntimeError"
             /\ resp'.node = "ingest"
             /\ resp'.faiss_dir = None
             /\ indexed_videos' = indexed_videos
             /\ f5_store' = f5_store
             /\ get_index(indexed_videos', resp'.key[1], resp'.key[2], resp'.key[3]) = None
        /\ \A key \in Keys :
              (Len(runs'[key]) = 2 /\ runs'[key][1].raised = "RuntimeError") =>
                 runs'[key][2].builds = 1
      ]_vars

\* a request failed on the stream and the next one for the key built the
\* index
C16_Witness ==
    \E key \in Keys :
       /\ Len(runs[key]) = 2
       /\ runs[key][1].raised = "RuntimeError" /\ runs[key][1].faiss_dir = None
       /\ runs[key][2].raised = "" /\ runs[key][2].builds = 1
       /\ get_index(indexed_videos, key[1], key[2], key[3]) = runs[key][2].faiss_dir

\* C17: a request whose LLM call raises ends as HTTP 500 without an answer,
\* and the chat history is left as it was: neither the question nor an
\* answer is appended.
C17_LlmFailurePropagates ==
    [][ (resp'.op = "video_rag" /\ resp'.fault = "llm") =>
           /\ resp'.status = 500
           /\ resp'.raised # ""
           /\ resp'.answer = None
           /\ resp'.messages = <<>>
           /\ chat_messages' = chat_messages
      ]_vars

\* the LLM call of a request on a chat with history raised
C17_Witness ==
    /\ resp.op = "video_rag" /\ resp.fault = "llm" /\ resp.llm_calls = 1
    /\ resp.status = 500
    /\ Len(chat_rows(chat_messages, resp.key[1], resp.key[2])) = 2

\* C18: a request whose URL has neither the short-link shape nor the watch
\* shape ends with the error of ingest_node; ingest_video is not run and
\* the cache, the store and the history stay as they were.
C18_OtherUrlRejected ==
    [][ ( /\ resp'.op = "video_rag"
          /\ ~Has(resp'.key[3], "youtu.be/")
          /\ ~Has(resp'.key[3], "v=") ) =>
           /\ resp'.status = 500
           /\ resp'.raised = "IndexError"
           /\ resp'.node = "ingest"
           /\ resp'.builds = 0
           /\ resp'.faiss_dir = None
           /\ UNCHANGED <<indexed_videos, f5_store, uuid_next, chat_messages>>
      ]_vars

\* a URL of another shape was rejected while the cache held an entry
C18_Witness ==
    /\ resp.op = "video_rag" /\ resp.key[3] = UrlOther
    /\ resp.raised = "IndexError" /\ resp.builds = 0
    /\ indexed_videos # {}

----------------------------------------------------------------------------
(* Properties of the speech share of retrieve_with_priority *)

QuotaCalled == probe.fn = "quota" /\ probe.called

\* the speech documents among the 2k candidates
C21_SpeechBucket == SelectSeq(similarity_search(probe.index, 2 * probe.k), IsSpeech)

C21_VisualBucket == SelectSeq(similarity_search(probe.index, 2 * probe.k), IsVisual)

C21_NotScarce == Len(C21_SpeechBucket) >= transcript_quota(probe.k)

----------------------------------------------------------------------------
(* Properties of the frame budget of ingest_video *)

BudgetCalled == probe.fn = "frame_budget"

\* C22: one ingestion gives at most 120 sampled frames to text recognition,
\* however many of them yield a text that is kept.
C22_FrameBudget ==
    BudgetCalled => Len(probe.sampled) <= max_frames_budget

----------------------------------------------------------------------------
(* Properties of the two branches of rag_node *)

\* C23: the retriever is called only for a message without a timestamp;
\* for a message with a timestamp rag_node does not call it.
C23_RetrieverOnlyWithoutTimestamp ==
    ComposeCalled =>
       /\ extract_timestamp(probe.message) = None => probe.retrieve_calls = 1
       /\ extract_timestamp(probe.message) # None => probe.retrieve_calls = 0

\* the interval of d overlaps [T-45, T+45] or d starts within 45 s of T
C24_InRange(d, T) ==
    \/ (d.start <= Sec(T + rag_window) /\ d.end >= Sec(T - rag_window))
    \/ (d.start - Sec(T) <= Sec(rag_window) /\ Sec(T) - d.start <= Sec(rag_window))

\* C24: for a message with a timestamp T every line of the screen block
\* given to the LLM is the line of a screen document in range of T.
C24_VisualInRange ==
    (ComposeCalled /\ extract_timestamp(probe.message) # None /\ probe.llm_calls = 1) =>
       \A line \in Range(C11_Lines(probe.ocr_context)) :
          \E d \in {x \in Range(probe.index) : IsVisual(x)} :
             /\ line = screen_line(d.start, d.page_content)
             /\ C24_InRange(d, extract_timestamp(probe.message)[1])

----------------------------------------------------------------------------
(* Properties of the history given to the LLM *)

HistoryCalled == probe.fn = "history" /\ probe.called

\* the last n entries of s
C25_Last(s, n) == SubSeq(s, IF Len(s) > n THEN Len(s) - n + 1 ELSE 1, Len(s))

\* C25: the history given to the LLM is the last 8 messages of the chat, in
\* the order in which they were saved.
C25_MostRecentHistory ==
    (HistoryCalled /\ probe.llm_calls = 1) =>
       probe.llm_history = C25_Last(chat_rows(probe.history, "u1", "c1"), history_limit)

----------------------------------------------------------------------------
(* Properties of unsupported time forms *)

\* the positions of the message where digits, a colon and two digits stand
C26_TimeAt(s) == {i \in 1..Len(s) : MatchTime(s, i) # None}

\* the time at position i is part of a longer time-like text: a digit or a
\* colon stands directly before it or directly after it
C26_Embedded(s, i) ==
    LET after == i + Len(MatchTime(s, i)[1].g1) + 3
    IN  \/ DigitAt(s, i - 1) \/ CharAt(s, i - 1) = ":"
        \/ DigitAt(s, after) \/ CharAt(s, after) = ":"

\* the message has time-like text and none of it is a plain M:SS or MM:SS
C26_OnlyUnsupported(s) ==
    /\ C26_TimeAt(s) # {}
    /\ \A i \in C26_TimeAt(s) : C26_Embedded(s, i)

\* C26: a message whose time-like text is not a supported MM:SS form (an
\* hours field, more than two minute digits) has no timestamp.
C26_UnsupportedIsAbsent ==
    (TimestampCalled /\ C26_OnlyUnsupported(probe.message)) => probe.timestamp = None

----------------------------------------------------------------------------
(* Properties of the cache key *)

\* C27: a chat never holds two indexes of one video: cache entries of one
\* (user, chat) whose URLs name the same video id are the same entry.
C27_OneIndexPerVideo ==
    \A r1, r2 \in indexed_videos :
       ( /\ r1.user_id = r2.user_id /\ r1.chat_id = r2.chat_id
         /\ extract_video_id(r1.youtube_url) = extract_video_id(r2.youtube_url) )
       => r1 = r2

----------------------------------------------------------------------------
(* Properties of chat deletion *)

\* the chat has a cache entry
C28_HasEntry(table, user_id, chat_id) ==
    \E r \in table : r.user_id = user_id /\ r.chat_id = chat_id

\* C28: a feature5_delete_chat request for a chat that has a cache entry
\* leaves the chat without history, without cache entries and without index
\* directories; a request that is not a deletion removes or changes no
\* cache entry.
C28_DeleteRemovesAll ==
    [][ /\ (resp'.op = "delete" /\ C28_HasEntry(indexed_videos, resp'.user_id, resp'.chat_id)) =>
             /\ chat_rows(chat_messages', resp'.user_id, resp'.chat_id) = <<>>
             /\ ~C28_HasEntry(indexed_videos', resp'.user_id, resp'.chat_id)
             /\ \A d \in DOMAIN f5_store' :
                   ~(d[2] = resp'.user_id /\ d[3] = resp'.chat_id)
        /\ resp'.op = "video_rag" => indexed_videos \subseteq indexed_videos'
      ]_vars

----------------------------------------------------------------------------
(* Properties of the chat history under concurrent requests *)

\* no request is in progress
C29_Quiet == \A t \in Threads : threads[t].pc \in {"idle", "done"}

\* the rows are (human, ai) pairs
C29_Pairs(rows) ==
    /\ Len(rows) % 2 = 0
    /\ \A i \in 1..Len(rows) : rows[i].role = IF i % 2 = 1 THEN "human" ELSE "ai"

\* C29: whenever no request is in progress, the history of every chat is a
\* sequence of (human, ai) pairs, whatever the interleaving of the requests
\* was.
C29_HistoryInPairs ==
    C29_Quiet => \A chat_id \in RaceChats : C29_Pairs(chat_rows(chat_messages, "u1", chat_id))

----------------------------------------------------------------------------
(* Properties of the timestamps of an answer *)

MarkersCalled == probe.fn = "timestamps" /\ probe.called

\* the best similarity rank of a document with the marker
C30_Rank(marker) ==
    CHOOSE i \in 1..Len(probe.index) :
        /\ time_marker(probe.index[i].start) = marker
        /\ \A j \in 1..(i - 1) : time_marker(probe.index[j].start) # marker

C30_Markers == {time_marker(probe.retrieved[i].start) : i \in 1..Len(probe.retrieved)}

C30_Kept == {probe.timestamps[i] : i \in 1..Len(probe.timestamps)}

\* C30: the timestamps of an answer are at most 10, without duplicates, each
\* the marker of a retrieved snippet, and no marker left out belongs to a
\* snippet ranked above the snippets of a marker kept; the no-context answer
\* has no timestamps.
C30_TopTimestamps ==
    MarkersCalled =>
        /\ Len(probe.timestamps) <= timestamps_limit
        /\ \A i, j \in 1..Len(probe.timestamps) :
              probe.timestamps[i] = probe.timestamps[j] => i = j
        /\ C30_Kept \subseteq C30_Markers
        /\ \A kept \in C30_Kept, left \in C30_Markers \ C30_Kept :
              C30_Rank(kept) < C30_Rank(left)
        /\ probe.answer = Some(FallbackAnswer) => probe.timestamps = <<>>

====
